---- MODULE Spec2Model ----
(***************************************************************************)
(* Model of js/db.js (the IndexedDB layer of MADB): the four object stores, *)
(* the asynchronous operations of IndexedDBStorage as sequences of storage  *)
(* requests, the legacy migration run by the startup chain, and            *)
(* backup/restore.                                                         *)
(*                                                                         *)
(* One action is one storage request of an operation together with the     *)
(* synchronous code that precedes it (JavaScript runs to the next await    *)
(* without interleaving; `await getDB()` on an open connection resumes in  *)
(* the same macrotask, so it is no interleaving point).                    *)
(***************************************************************************)
EXTENDS Integers, Sequences, FiniteSets, TLC

VARIABLES farms, expenses, settings, farmInfo, clock, tasks, hist, db,
          notifier, worker

vars == <<farms, expenses, settings, farmInfo, clock, tasks, hist, db,
          notifier, worker>>

(***************************************************************************)
(* Values                                                                  *)
(***************************************************************************)

\* A falsy id / date / pointer (undefined, null, "" or 0 in the source).
NoId == 0

\* Greatest value Date.now() returns in the model.
MaxClock == 3

\* farm.taskCompletions when the property is missing.
NoTCs == [defined |-> FALSE, items |-> <<>>]

FarmA ==
    [id |-> 1, name |-> "Plot A", size |-> 1, startDate |-> 1,
     cropping |-> "first", createdAt |-> 1, updatedAt |-> 0,
     completed |-> "absent", completedDate |-> 0, taskCompletions |-> NoTCs]

FarmB ==
    [id |-> 2, name |-> "Plot B", size |-> 2, startDate |-> 2,
     cropping |-> "second", createdAt |-> 2, updatedAt |-> 2,
     completed |-> "true", completedDate |-> 2,
     taskCompletions |->
        [defined |-> TRUE,
         items |-> <<[stageIndex |-> 0, taskIndex |-> 1, scheduledDate |-> 1,
                      completedDate |-> 2, delayDays |-> 1, timestamp |-> 2]>>]]

\* The same id as FarmA, with two task completions recorded.
FarmAT ==
    [FarmA EXCEPT !.taskCompletions =
        [defined |-> TRUE,
         items |-> <<[stageIndex |-> 1, taskIndex |-> 0, scheduledDate |-> 1,
                      completedDate |-> 1, delayDays |-> 0, timestamp |-> 1],
                     [stageIndex |-> 0, taskIndex |-> 1, scheduledDate |-> 1,
                      completedDate |-> 2, delayDays |-> 1, timestamp |-> 2]>>]]

\* The same id as FarmB with other field values.
FarmB2 == [FarmB EXCEPT !.name = "Plot B2", !.completed = "false",
                        !.completedDate = 0, !.taskCompletions = NoTCs]

\* A farm object without an id (a new farm, or a hand-edited backup entry).
FarmNew == [FarmA EXCEPT !.id = NoId, !.name = "Plot N"]

\* getFarm: `result || null`, null modelled by a record without id.
NoFarm == [FarmA EXCEPT !.id = NoId, !.name = "null"]

ExpenseX == [id |-> 1, farmId |-> 1, name |-> "seeds", category |-> "Seeds",
             amount |-> 100, date |-> 1]
ExpenseY == [id |-> 2, farmId |-> 2, name |-> "urea", category |-> "Fertilizer",
             amount |-> 250, date |-> 2]
\* Expenses written by the single-farm version carry no farmId.
ExpenseO1 == [ExpenseX EXCEPT !.farmId = NoId]
ExpenseO2 == [ExpenseY EXCEPT !.farmId = NoId]
\* The same id as ExpenseX with other field values.
ExpenseX2 == [ExpenseX EXCEPT !.amount = 999, !.farmId = 2]
\* An expense object without an id property.
ExpenseNoId == [ExpenseX EXCEPT !.id = NoId]

\* The record the single-farm version kept under the key 'farmInfo' (stored
\* as its JSON text, which getItem parses back into this object).
LegacyFarm == [name |-> "Plot A", size |-> 1, startDate |-> 1, cropping |-> "first"]

(***************************************************************************)
(* Object stores.  farms and expenses use the in-line key path 'id'; a     *)
(* store is the set of its records, no two with the same id.  settings and *)
(* farmInfo use out-of-line keys; a store is a set of [key, value] pairs.  *)
(***************************************************************************)

Keys(store) == {r.id : r \in store}

StorePut(store, rec) == {r \in store : r.id # rec.id} \cup {rec}

StoreDelete(store, id) == {r \in store : r.id # id}

HasKey(store, id) == \E r \in store : r.id = id

StoreGet(store, id) == CHOOSE r \in store : r.id = id

RECURSIVE SortedByKey(_)
\* store.getAll(): the records in ascending key order.
SortedByKey(store) ==
    IF store = {} THEN <<>>
    ELSE LET least == CHOOSE r \in store : \A q \in store : r.id <= q.id
         IN  <<least>> \o SortedByKey(store \ {least})

KVPut(store, key, value) ==
    {p \in store : p.key # key} \cup {[key |-> key, value |-> value]}

KVHas(store, key) == \E p \in store : p.key = key

KVGet(store, key) == (CHOOSE p \in store : p.key = key).value

\* The four stores as one value, for snapshots.
Store == [farms |-> farms, expenses |-> expenses,
          settings |-> settings, farmInfo |-> farmInfo]

Range(seq) == {seq[i] : i \in 1..Len(seq)}

(***************************************************************************)
(* The page outside the database.  notifier is what NotificationManager    *)
(* works on: Notification.permission, localStorage's lastNotificationCheck *)
(* (written by toISOString() and read back by new Date(), so an instant),  *)
(* and the browser notifications shown so far.  worker is the service      *)
(* worker: whether its install event has settled, the two caches, whether  *)
(* the network can be reached, and how the last fetch event was answered:  *)
(* the URL requested, whether the network was out of reach, and what was   *)
(* served ("network", the URL of a cached response, or "none" when         *)
(* respondWith was given undefined).                                       *)
(***************************************************************************)

\* localStorage.getItem(LAST_NOTIFICATION_KEY) when the key is not set.
NoCheck == -1

IdleNotifier == [granted |-> FALSE, lastCheck |-> NoCheck, shown |-> {}]

IdleWorker ==
    [installed |-> FALSE, static |-> {}, dynamic |-> {}, online |-> TRUE,
     last |-> [url |-> "none", offline |-> FALSE, served |-> "none"]]

(***************************************************************************)
(* The database.  db.conn is what dbPromise settles to ("unopened" before  *)
(* initDB is called); db.version is the version on disk; db.schema is the  *)
(* set of the object stores that exist and, as "store.index", of their     *)
(* indexes; db.old is the schema as it was before initDB opened it.        *)
(***************************************************************************)

\* DB_VERSION
DB_VERSION == 2

\* What onupgradeneeded creates for a store that does not exist: the store
\* and, in the same branch, its indexes.
CreatedWith(store) ==
    CASE store = "farms" -> {"farms", "farms.name"}
      [] store = "farmInfo" -> {"farmInfo"}
      [] store = "expenses" ->
            {"expenses", "expenses.date", "expenses.category", "expenses.farmId"}
      [] store = "settings" -> {"settings"}

\* STORES
StoreNames == {"farms", "farmInfo", "expenses", "settings"}

\* The stores and indexes of a database that initDB created from nothing.
FullSchema == UNION {CreatedWith(store) : store \in StoreNames}

\* A database opened by initDB on a schema initDB itself created.
OpenDB == [conn |-> "open", version |-> DB_VERSION, schema |-> FullSchema,
           old |-> FullSchema]

(***************************************************************************)
(* Operations in flight.  A slot holds one asynchronous call and its       *)
(* locals; pc names the storage request the call issues next.              *)
(***************************************************************************)

Slots == {"a", "b"}

\* No document: the argument null.
NullDoc ==
    [kind |-> "null", version |-> "", exportDate |-> 0, selectedFarmId |-> NoId,
     farmsIsArray |-> FALSE, farms |-> <<>>,
     expensesIsArray |-> FALSE, expenses |-> <<>>]

\* The arguments of saveTaskCompletion / deleteTaskCompletion after farmId.
NoArgs == [stageIndex |-> 0, taskIndex |-> 0, scheduledDate |-> 0, completedDate |-> 0]

\* The arguments of getExpensesByDateRange (instants).
NoRange == [startDate |-> 0, endDate |-> 0]

\* What a checkAllFarms call found when it began: the active farms it read,
\* the calendar day, whether notifications were enabled and whether no check
\* had been recorded on that day.
NoCheckInfo == [farms |-> <<>>, day |-> 0, granted |-> FALSE, first |-> FALSE]

\* A JSON value: null, a number or a string (n tells which number or string).
JsonNull == [type |-> "null", n |-> 0]

\* The arguments of setItem / getItem / removeItem and what getItem returned.
NoKV == [key |-> "", value |-> JsonNull, result |-> JsonNull]

IdleTask ==
    [op |-> "idle", pc |-> "idle", id |-> NoId, doc |-> NullDoc, i |-> 0,
     args |-> NoArgs, failed |-> FALSE, range |-> NoRange, check |-> NoCheckInfo,
     kv |-> NoKV, seen |-> {},
     fs |-> <<>>, es |-> <<>>, res |-> "none",
     pre |-> [farms |-> {}, expenses |-> {}, settings |-> {}, farmInfo |-> {}],
     stats |-> [farmsImported |-> 0, expensesImported |-> 0],
     orig |-> NullDoc, retry |-> FALSE, roundtrip |-> FALSE, gen |-> FALSE,
     fresh |-> TRUE, solo |-> TRUE]

\* A slot whose call has settled (or that holds none) can take the next call.
Quiescent(s) == tasks[s].pc \in {"idle", "done", "rejected"}

InFlight(s) == ~Quiescent(s)

EmptyStores == [farms |-> {}, expenses |-> {}, settings |-> {}, farmInfo |-> {}]

\* hist is history kept for the properties.  It remembers the multi-step
\* call that a page reload cut short (a restore after its wipe, a migration
\* after its farm was saved): the document it was given and the stores
\* before it began; overlap tells whether a call was ever started while
\* another caller's operation was unfinished; calls counts the calls of the
\* operations that are given a budget.
NoHist ==
    [active |-> FALSE, op |-> "none", doc |-> NullDoc, pre |-> EmptyStores,
     overlap |-> FALSE, calls |-> 0]

NewTask(op, pc) ==
    [IdleTask EXCEPT !.op = op, !.pc = pc, !.pre = Store]

(***************************************************************************)
(* saveFarm, saveExpense, getSelectedFarmId, setSelectedFarmId             *)
(***************************************************************************)

\* saveFarm: "Ensure farm has an ID": farm.id = `farm_${Date.now()}`; the
\* generated id farm_<t> is modelled by the clock reading t.
FarmWithId(farm, t) ==
    IF farm.id = NoId THEN [farm EXCEPT !.id = t] ELSE farm

\* The clock readings a call of Date.now() can return: not before the last one.
Now == clock..MaxClock

\* store.put(expense) on a store with key path 'id' and no key generator
\* throws DataError when the record carries no id.
PutExpenseFails(expense) == expense.id = NoId

\* getSelectedFarmId: `result || null`.
GetSelectedFarmId(st) ==
    IF KVHas(st, "selectedFarmId") THEN KVGet(st, "selectedFarmId") ELSE NoId

SetSelectedFarmId(st, id) == KVPut(st, "selectedFarmId", id)

(***************************************************************************)
(* exportAllData                                                           *)
(***************************************************************************)

\* ExportDoc built from getActiveFarms() in place of getAllFarms().
ExportDocActiveOnly(fs, es, sel, t) ==
    [kind |-> "object", version |-> "1.0", exportDate |-> t,
     selectedFarmId |-> sel,
     farmsIsArray |-> TRUE,
     farms |-> SelectSeq(fs, LAMBDA f : f.completed # "true"),
     expensesIsArray |-> TRUE, expenses |-> es]

ExportDoc(fs, es, sel, t) ==
    [kind |-> "object", version |-> "1.0", exportDate |-> t,
     selectedFarmId |-> sel,
     farmsIsArray |-> TRUE, farms |-> fs,
     expensesIsArray |-> TRUE, expenses |-> es]

\* const farms = await getAllFarms()
ExportCall(s) ==
    /\ Quiescent(s)
    /\ tasks' = [tasks EXCEPT ![s] =
           [NewTask("export", "expenses") EXCEPT !.fs = SortedByKey(farms)]]
    /\ hist' = NoHist
    /\ UNCHANGED <<farms, expenses, settings, farmInfo, db, notifier, worker, clock>>

\* const expenses = await getAllExpenses()
ExportExpenses(s) ==
    /\ tasks[s].op = "export" /\ tasks[s].pc = "expenses"
    /\ tasks' = [tasks EXCEPT ![s].es = SortedByKey(expenses), ![s].pc = "selected"]
    /\ UNCHANGED <<farms, expenses, settings, farmInfo, db, notifier, worker, clock, hist>>

\* const selectedFarmId = await getSelectedFarmId(); build and return exportData
ExportSelected(s) ==
    /\ tasks[s].op = "export" /\ tasks[s].pc = "selected"
    /\ \E t \in Now :
         LET d == ExportDoc(tasks[s].fs, tasks[s].es, GetSelectedFarmId(settings), t)
         IN  /\ clock' = t
             /\ tasks' = [tasks EXCEPT ![s].doc = d, ![s].pc = "done", ![s].res = "ok"]
    /\ UNCHANGED <<farms, expenses, settings, farmInfo, db, notifier, worker, hist>>

(***************************************************************************)
(* importAllData                                                           *)
(***************************************************************************)

\* InvalidFormat without the version test.
InvalidFormatNullOnly(d) == d.kind = "null"

\* if (!data || !data.version) throw new Error('Invalid backup file format')
InvalidFormat(d) == d.kind = "null" \/ d.version = ""

\* data.farms && Array.isArray(data.farms)
FarmsOf(d) == IF d.farmsIsArray THEN d.farms ELSE <<>>

\* data.expenses && Array.isArray(data.expenses)
ExpensesOf(d) == IF d.expensesIsArray THEN d.expenses ELSE <<>>

\* The request importAllData issues next, given that farms before index i
\* (phase "farms") or expenses before index i (phase "expenses") are saved.
ImportPc(d, phase, i) ==
    IF phase = "farms" /\ i <= Len(FarmsOf(d)) THEN <<"farms", i>>
    ELSE IF phase = "farms" /\ Len(ExpensesOf(d)) >= 1 THEN <<"expenses", 1>>
    ELSE IF phase = "expenses" /\ i <= Len(ExpensesOf(d)) THEN <<"expenses", i>>
    ELSE IF d.selectedFarmId # NoId THEN <<"selected", 0>>
    ELSE <<"done", 0>>

\* stats: data.farms?.length || 0, data.expenses?.length || 0
ImportStats(d) ==
    [farmsImported |-> Len(d.farms), expensesImported |-> Len(d.expenses)]

Advance(t, next, d) ==
    [t EXCEPT !.pc = next[1], !.i = next[2],
              !.res = IF next[1] = "done" THEN "ok" ELSE t.res,
              !.stats = IF next[1] = "done" THEN ImportStats(d) ELSE t.stats]

\* ClearedFarms with farmsStore.clear() left out.
ClearedFarmsKept == farms

\* The two stores after the preparatory wipe (farmsStore.clear(),
\* expensesStore.clear() in one transaction).
ClearedFarms == {}

ClearedExpenses == {}

\* What a restore leaves of the stores it wipes does not depend on what they
\* held: of a restore that is no round trip only the stores it keeps are
\* remembered as they were before it.
KeptStores == [EmptyStores EXCEPT !.settings = settings, !.farmInfo = farmInfo]

\* importAllData(d) up to its first request: the format check, then the wipe.
ImportCall(s, d, isRoundTrip) ==
    /\ Quiescent(s)
    /\ LET retry == hist.active /\ hist.op = "import" /\ d = hist.doc
           t0 == [NewTask("import", "call") EXCEPT
                     !.doc = d, !.orig = d, !.retry = retry,
                     !.roundtrip = isRoundTrip,
                     !.pre = IF retry THEN hist.pre
                             ELSE IF isRoundTrip THEN Store
                             ELSE KeptStores]
       IN  IF InvalidFormat(d)
           THEN /\ tasks' = [tasks EXCEPT ![s] =
                       [t0 EXCEPT !.pc = "rejected",
                                  !.res = "Invalid backup file format"]]
                /\ UNCHANGED <<farms, expenses>>
           ELSE /\ farms' = ClearedFarms
                /\ expenses' = ClearedExpenses
                /\ tasks' = [tasks EXCEPT ![s] = Advance(t0, ImportPc(d, "farms", 1), d)]
    /\ hist' = NoHist
    /\ UNCHANGED <<settings, farmInfo, db, notifier, worker, clock>>

\* for (const farm of data.farms) await saveFarm(farm): saveFarm writes the
\* generated id into the document's own farm object.
ImportFarm(s) ==
    /\ tasks[s].op = "import" /\ tasks[s].pc = "farms"
    /\ LET i == tasks[s].i
           farm == tasks[s].doc.farms[i]
       IN  \E t \in (IF farm.id = NoId THEN Now ELSE {clock}) :
             LET saved == FarmWithId(farm, t)
                 d == [tasks[s].doc EXCEPT !.farms[i] = saved]
             IN  /\ farms' = StorePut(farms, saved)
                 /\ clock' = t
                 /\ tasks' = [tasks EXCEPT ![s] =
                        Advance([tasks[s] EXCEPT !.doc = d],
                                ImportPc(d, "farms", i + 1), d)]
    /\ UNCHANGED <<expenses, settings, farmInfo, db, notifier, worker, hist>>

\* for (const expense of data.expenses) await saveExpense(expense)
ImportExpense(s) ==
    /\ tasks[s].op = "import" /\ tasks[s].pc = "expenses"
    /\ LET i == tasks[s].i
           d == tasks[s].doc
           expense == d.expenses[i]
       IN  IF PutExpenseFails(expense)
           THEN /\ tasks' = [tasks EXCEPT ![s].pc = "rejected", ![s].res = "DataError"]
                /\ UNCHANGED expenses
           ELSE /\ expenses' = StorePut(expenses, expense)
                /\ tasks' = [tasks EXCEPT ![s] =
                       Advance(tasks[s], ImportPc(d, "expenses", i + 1), d)]
    /\ UNCHANGED <<farms, settings, farmInfo, db, notifier, worker, clock, hist>>

\* if (data.selectedFarmId) await setSelectedFarmId(data.selectedFarmId)
ImportSelected(s) ==
    /\ tasks[s].op = "import" /\ tasks[s].pc = "selected"
    /\ settings' = SetSelectedFarmId(settings, tasks[s].doc.selectedFarmId)
    /\ tasks' = [tasks EXCEPT ![s] = Advance(tasks[s], <<"done", 0>>, tasks[s].doc)]
    /\ UNCHANGED <<farms, expenses, farmInfo, db, notifier, worker, clock, hist>>

(***************************************************************************)
(* migrateLegacyData, run by the startup chain of every page load          *)
(***************************************************************************)

\* getItem('farmInfo'): null when the key is missing.
HasLegacy == KVHas(farmInfo, "farmInfo")

\* "Create new farm from legacy data": id from Date.now() (reading t),
\* createdAt from new Date() (reading t2); no other property is set.
NewFarmFromLegacy(legacy, t, t2) ==
    [id |-> t, name |-> legacy.name, size |-> legacy.size,
     startDate |-> legacy.startDate, cropping |-> legacy.cropping,
     createdAt |-> t2, updatedAt |-> 0, completed |-> "absent",
     completedDate |-> 0, taskCompletions |-> NoTCs]

\* IsOrphan that takes every expense.
IsOrphanAlways(expense) == TRUE

\* if (!expense.farmId)
IsOrphan(expense) == expense.farmId = NoId

\* initDB().then(() => migrateLegacyData()): const legacyFarm = await getItem('farmInfo')
MigrateCall(s) ==
    /\ tasks[s].op = "startup" /\ tasks[s].pc = "startup"
    /\ LET t0 == [NewTask("migrate", "getFarms") EXCEPT
                     !.retry = hist.active /\ hist.op = "migrate"]
       IN  tasks' = [tasks EXCEPT ![s] =
               IF HasLegacy THEN t0
               ELSE [t0 EXCEPT !.pc = "done", !.res = "no-legacy"]]
    /\ hist' = IF hist.op = "migrate" THEN NoHist ELSE hist
    /\ UNCHANGED <<farms, expenses, settings, farmInfo, db, notifier, worker, clock>>

\* MigrateGetFarms without the "already migrated" return.
MigrateGetFarmsNoSkip(s) ==
    /\ tasks[s].op = "migrate" /\ tasks[s].pc = "getFarms"
    /\ tasks' = [tasks EXCEPT ![s].pc = "saveFarm"]
    /\ UNCHANGED <<farms, expenses, settings, farmInfo, db, notifier, worker, clock, hist>>

\* const farms = await getAllFarms(); if (farms.length > 0) return
MigrateGetFarms(s) ==
    /\ tasks[s].op = "migrate" /\ tasks[s].pc = "getFarms"
    /\ tasks' = [tasks EXCEPT
           ![s].pc = IF farms # {} THEN "done" ELSE "saveFarm",
           ![s].res = IF farms # {} THEN "skipped" ELSE tasks[s].res]
    /\ UNCHANGED <<farms, expenses, settings, farmInfo, db, notifier, worker, clock, hist>>

\* await saveFarm(newFarm)
MigrateSaveFarm(s) ==
    /\ tasks[s].op = "migrate" /\ tasks[s].pc = "saveFarm"
    /\ \E t \in Now : \E t2 \in t..MaxClock :
         LET newFarm == NewFarmFromLegacy(KVGet(tasks[s].pre.farmInfo, "farmInfo"), t, t2)
         IN  /\ farms' = StorePut(farms, FarmWithId(newFarm, t2))
             /\ clock' = t2
             /\ tasks' = [tasks EXCEPT ![s].id = newFarm.id, ![s].pc = "select"]
    /\ UNCHANGED <<expenses, settings, farmInfo, db, notifier, worker, hist>>

\* MigrateSelect that also removes the legacy record once the farm is saved.
MigrateSelectDropLegacy(s) ==
    /\ tasks[s].op = "migrate" /\ tasks[s].pc = "select"
    /\ settings' = SetSelectedFarmId(settings, tasks[s].id)
    /\ farmInfo' = {}
    /\ tasks' = [tasks EXCEPT ![s].pc = "getExpenses"]
    /\ UNCHANGED <<farms, expenses, db, notifier, worker, clock, hist>>

\* await setSelectedFarmId(newFarm.id)
MigrateSelect(s) ==
    /\ tasks[s].op = "migrate" /\ tasks[s].pc = "select"
    /\ settings' = SetSelectedFarmId(settings, tasks[s].id)
    /\ tasks' = [tasks EXCEPT ![s].pc = "getExpenses"]
    /\ UNCHANGED <<farms, expenses, farmInfo, db, notifier, worker, clock, hist>>

\* const allExpenses = await getAllExpenses(); the loop then saves each
\* expense of this list that has no farmId.
MigrateGetExpenses(s) ==
    /\ tasks[s].op = "migrate" /\ tasks[s].pc = "getExpenses"
    /\ LET orphans == SelectSeq(SortedByKey(expenses), IsOrphan)
       IN  tasks' = [tasks EXCEPT
               ![s].es = orphans,
               ![s].pc = IF orphans = <<>> THEN "done" ELSE "expenses",
               ![s].res = IF orphans = <<>> THEN "migrated" ELSE tasks[s].res]
    /\ UNCHANGED <<farms, expenses, settings, farmInfo, db, notifier, worker, clock, hist>>

\* expense.farmId = newFarm.id; await saveExpense(expense)
MigrateExpense(s) ==
    /\ tasks[s].op = "migrate" /\ tasks[s].pc = "expenses"
    /\ LET expense == [Head(tasks[s].es) EXCEPT !.farmId = tasks[s].id]
           rest == Tail(tasks[s].es)
       IN  /\ expenses' = StorePut(expenses, expense)
           /\ tasks' = [tasks EXCEPT
                  ![s].es = rest,
                  ![s].pc = IF rest = <<>> THEN "done" ELSE "expenses",
                  ![s].res = IF rest = <<>> THEN "migrated" ELSE tasks[s].res]
    /\ UNCHANGED <<farms, settings, farmInfo, db, notifier, worker, clock, hist>>

(***************************************************************************)
(* Page load.  The script ends with initDB().then(migrateLegacyData): a    *)
(* reload (or a crash and restart) abandons every call in flight, keeps    *)
(* the stores, and runs the startup chain again.                           *)
(***************************************************************************)

StartupTask == [IdleTask EXCEPT !.op = "startup", !.pc = "startup"]

\* A restore whose wipe has been committed.
PastWipe(t) == t.op = "import" /\ t.pc \in {"farms", "expenses", "selected", "done"}

\* A migration that has persisted its farm and not yet finished.
PastSaveFarm(t) == t.op = "migrate" /\ t.pc \in {"select", "getExpenses", "expenses"}

Reload ==
    /\ \E s \in Slots : tasks[s].op # "startup"
    /\ tasks' = [s \in Slots |-> IF s = "a" THEN StartupTask ELSE IdleTask]
    /\ hist' = IF \E s \in Slots : PastWipe(tasks[s]) \/ PastSaveFarm(tasks[s])
               THEN LET s == CHOOSE x \in Slots : PastWipe(tasks[x]) \/ PastSaveFarm(tasks[x])
                    IN  [active |-> TRUE, op |-> tasks[s].op,
                         doc |-> tasks[s].orig, pre |-> tasks[s].pre,
                         overlap |-> FALSE, calls |-> 0]
               ELSE hist
    /\ UNCHANGED <<farms, expenses, settings, farmInfo, db, notifier, worker, clock>>

(***************************************************************************)
(* The backup documents a restore is given, besides the one an export      *)
(* just returned.                                                          *)
(***************************************************************************)

DocFarmLists ==
    {<<>>, <<FarmA, FarmB2>>, <<FarmB, FarmB2>>, <<FarmNew>>, <<FarmNew, FarmNew>>}

DocExpenseLists ==
    {<<>>, <<ExpenseX, ExpenseY>>, <<ExpenseX, ExpenseX2>>, <<ExpenseNoId>>}

ValidDocs ==
    {[kind |-> "object", version |-> "1.0", exportDate |-> 1, selectedFarmId |-> sel,
      farmsIsArray |-> TRUE, farms |-> fs, expensesIsArray |-> TRUE, expenses |-> es] :
        sel \in {NoId, 2}, fs \in DocFarmLists, es \in DocExpenseLists}

\* A document without the version field.
NoVersionDoc ==
    [kind |-> "object", version |-> "", exportDate |-> 1, selectedFarmId |-> 2,
     farmsIsArray |-> TRUE, farms |-> <<FarmA, FarmB2>>,
     expensesIsArray |-> TRUE, expenses |-> <<ExpenseX, ExpenseY>>]

\* A versioned document without the two lists (data.farms and data.expenses
\* undefined).
NoListsDoc ==
    [kind |-> "object", version |-> "1.0", exportDate |-> 1, selectedFarmId |-> 2,
     farmsIsArray |-> FALSE, farms |-> <<>>,
     expensesIsArray |-> FALSE, expenses |-> <<>>]

\* A versioned document whose farms is not an array but has a length (an
\* object {"0": farm, "length": 1}; a string has one too), and that has no
\* expenses.
ArrayLikeFarmsDoc ==
    [NoListsDoc EXCEPT !.selectedFarmId = NoId, !.farms = <<FarmA>>]

\* A versioned document with farms and without expenses.
NoExpensesDoc ==
    [NoListsDoc EXCEPT !.farmsIsArray = TRUE, !.farms = <<FarmA, FarmB2>>]

Docs ==
    ValidDocs \cup {NullDoc, NoVersionDoc, NoListsDoc, ArrayLikeFarmsDoc, NoExpensesDoc}

(***************************************************************************)
(* Spec: one page, one call at a time (each awaited before the next), with *)
(* reloads: startup migration, backup and restore.                         *)
(***************************************************************************)

InitFarms == {{}, {FarmA}, {FarmA, FarmB}}

InitExpenses == {{}, {ExpenseO1, ExpenseO2}, {ExpenseX, ExpenseY}}

InitSettings == {{}, {[key |-> "selectedFarmId", value |-> 1]}}

InitFarmInfo == {{}, {[key |-> "farmInfo", value |-> LegacyFarm]}}

Init ==
    /\ farms \in InitFarms
    /\ expenses \in InitExpenses
    /\ settings \in InitSettings
    /\ farmInfo \in InitFarmInfo
    /\ clock = 1
    /\ tasks = [s \in Slots |-> IF s = "a" THEN StartupTask ELSE IdleTask]
    /\ hist = NoHist
    /\ db = OpenDB
    /\ notifier = IdleNotifier
    /\ worker = IdleWorker

\* exportAllData() followed by importAllData of the document it returned.
ImportExported(s) ==
    /\ tasks[s].op = "export" /\ tasks[s].pc = "done"
    /\ ImportCall(s, tasks[s].doc, Store = tasks[s].pre)

ImportDoc(s) == \E d \in Docs : ImportCall(s, d, FALSE)

\* The restore that a reload cut short, run again from the same backup file.
ImportRetry(s) == hist.active /\ hist.op = "import" /\ ImportCall(s, hist.doc, FALSE)

Next ==
    \/ MigrateCall("a")
    \/ MigrateGetFarms("a")
    \/ MigrateSaveFarm("a")
    \/ MigrateSelect("a")
    \/ MigrateGetExpenses("a")
    \/ MigrateExpense("a")
    \/ ExportCall("a")
    \/ ExportExpenses("a")
    \/ ExportSelected("a")
    \/ ImportDoc("a")
    \/ ImportExported("a")
    \/ ImportRetry("a")
    \/ ImportFarm("a")
    \/ ImportExpense("a")
    \/ ImportSelected("a")
    \/ Reload

Spec == Init /\ [][Next]_vars

(***************************************************************************)
(* SpecAsync: two callers whose calls interleave.  saveFarm of new farms,  *)
(* saveExpense for a farm that exists when it is called, and farm removal  *)
(* as deleteExpensesByFarm(id) followed by deleteFarm(id).                 *)
(***************************************************************************)

GetFarm(st, id) == IF HasKey(st, id) THEN StoreGet(st, id) ELSE NoFarm

\* ExpensesByFarm reading the whole store (getAll() without the farmId).
ExpensesByFarmAll(st, farmId) == SortedByKey(st)

\* getExpensesByFarm: index('farmId').getAll(farmId), for farmId a valid key.
ExpensesByFarm(st, farmId) == SortedByKey({e \in st : e.farmId = farmId})

\* A caller that has begun something it has not finished: a call in flight,
\* or a removal between its deleteExpensesByFarm and its deleteFarm.
Busy(s) ==
    \/ InFlight(s)
    \/ tasks[s].op = "deleteExpensesByFarm" /\ tasks[s].pc = "done"

\* Slot s starts a call as task t, which uses n of the budget.  A caller is alone (solo) while no other
\* caller has begun anything since its call started; only then are the stores
\* as they were before the call remembered (but for the legacy record a
\* migration in flight has read).  The settled results of the other callers
\* are dropped.  An exportAllData in flight gets the stores as they are
\* before this call writes added to seen, the store contents there have
\* been since it began.
StartCounted(s, t, n) ==
    /\ tasks' = [o \in Slots |->
                    IF o = s
                    THEN IF \A x \in Slots \ {s} : ~Busy(x)
                         THEN t
                         ELSE [t EXCEPT !.solo = FALSE, !.pre = EmptyStores]
                    ELSE IF Busy(o)
                         THEN [tasks[o] EXCEPT
                                  !.solo = FALSE,
                                  !.seen = IF tasks[o].op = "export"
                                           THEN @ \cup {Store} ELSE @,
                                  !.pre = [EmptyStores EXCEPT
                                             !.farmInfo = tasks[o].pre.farmInfo]]
                         ELSE IdleTask]
    /\ hist' = [hist EXCEPT !.overlap = @ \/ \E x \in Slots \ {s} : Busy(x),
                            !.calls = @ + n]

Start(s, t) == StartCounted(s, t, 0)

\* saveFarm(farm): one put, after the id is filled in.
SaveFarmCall(s, farm) ==
    /\ Quiescent(s)
    /\ \E t \in (IF farm.id = NoId THEN Now ELSE {clock}) :
         LET saved == FarmWithId(farm, t)
         IN  /\ farms' = StorePut(farms, saved)
             /\ clock' = t
             /\ Start(s, [NewTask("saveFarm", "done") EXCEPT
                            !.id = saved.id, !.fs = <<saved>>,
                            !.gen = (farm.id = NoId),
                            !.fresh = ~HasKey(farms, saved.id), !.res = "ok"])
    /\ UNCHANGED <<expenses, settings, farmInfo, db, notifier, worker>>

\* saveExpense(expense): one put.
SaveExpenseCall(s, expense) ==
    /\ Quiescent(s)
    /\ IF PutExpenseFails(expense)
       THEN /\ Start(s, [NewTask("saveExpense", "rejected") EXCEPT !.res = "DataError"])
            /\ UNCHANGED expenses
       ELSE /\ expenses' = StorePut(expenses, expense)
            /\ Start(s, [NewTask("saveExpense", "done") EXCEPT
                           !.id = expense.id, !.es = <<expense>>, !.res = "ok"])
    /\ UNCHANGED <<farms, settings, farmInfo, db, notifier, worker, clock>>

\* deleteExpensesByFarm(farmId): const expenses = await getExpensesByFarm(farmId)
DeleteExpensesByFarmCall(s, farmId) ==
    /\ Quiescent(s)
    /\ LET found == ExpensesByFarm(expenses, farmId)
       IN  Start(s, [NewTask("deleteExpensesByFarm",
                             IF found = <<>> THEN "done" ELSE "delete") EXCEPT
                        !.id = farmId, !.es = found,
                        !.res = IF found = <<>> THEN "ok" ELSE "none"])
    /\ UNCHANGED <<farms, expenses, settings, farmInfo, db, notifier, worker, clock>>

\* DeleteExpenseStep that returns after the first delete.
DeleteExpenseStepOnce(s) ==
    /\ tasks[s].op = "deleteExpensesByFarm" /\ tasks[s].pc = "delete"
    /\ expenses' = StoreDelete(expenses, Head(tasks[s].es).id)
    /\ tasks' = [tasks EXCEPT ![s].es = <<>>, ![s].pc = "done", ![s].res = "ok"]
    /\ UNCHANGED <<farms, settings, farmInfo, db, notifier, worker, clock, hist>>

\* for (const expense of expenses) await deleteExpense(expense.id)
DeleteExpenseStep(s) ==
    /\ tasks[s].op = "deleteExpensesByFarm" /\ tasks[s].pc = "delete"
    /\ LET rest == Tail(tasks[s].es)
       IN  /\ expenses' = StoreDelete(expenses, Head(tasks[s].es).id)
           /\ tasks' = [tasks EXCEPT
                  ![s].es = rest,
                  ![s].pc = IF rest = <<>> THEN "done" ELSE "delete",
                  ![s].res = IF rest = <<>> THEN "ok" ELSE "none"]
    /\ UNCHANGED <<farms, settings, farmInfo, db, notifier, worker, clock, hist>>

\* deleteFarm(farmId): one delete.
DeleteFarmCall(s, farmId) ==
    /\ Quiescent(s)
    /\ farms' = StoreDelete(farms, farmId)
    /\ Start(s, [NewTask("deleteFarm", "done") EXCEPT !.id = farmId, !.res = "ok"])
    /\ UNCHANGED <<expenses, settings, farmInfo, db, notifier, worker, clock>>

\* The farm objects and expense objects the callers save.
NewFarms == {FarmNew}

ExpenseIds == {1, 2}

ExpenseFor(id, farmId) == [ExpenseX EXCEPT !.id = id, !.farmId = farmId]

\* The caller saves a new farm.
UserSaveNewFarm(s) == \E farm \in NewFarms : SaveFarmCall(s, farm)

\* The caller saves an expense for a farm that is in the store at the call.
UserSaveExpense(s) ==
    \E id \in ExpenseIds : \E f \in Keys(farms) : SaveExpenseCall(s, ExpenseFor(id, f))

\* The caller begins the removal of a farm.
UserRemoveFarmBegin(s) == \E f \in Keys(farms) : DeleteExpensesByFarmCall(s, f)

\* The caller ends the removal: deleteFarm(id) once deleteExpensesByFarm(id) resolved.
UserRemoveFarmEnd(s) ==
    /\ tasks[s].op = "deleteExpensesByFarm" /\ tasks[s].pc = "done"
    /\ DeleteFarmCall(s, tasks[s].id)

\* Farms with the expenses recorded for them.
InitAsyncStores ==
    {<<{}, {}>>, <<{FarmA}, {ExpenseX}>>, <<{FarmA, FarmB}, {ExpenseX, ExpenseY}>>}

InitAsync ==
    /\ \E st \in InitAsyncStores : farms = st[1] /\ expenses = st[2]
    /\ settings = {[key |-> "selectedFarmId", value |-> 1]}
    /\ farmInfo = {}
    /\ clock = 1
    /\ tasks = [s \in Slots |-> IdleTask]
    /\ hist = NoHist
    /\ db = OpenDB
    /\ notifier = IdleNotifier
    /\ worker = IdleWorker

NextAsync ==
    \E s \in Slots :
        \/ UserSaveNewFarm(s)
        \/ UserSaveExpense(s)
        \/ UserRemoveFarmBegin(s)
        \/ DeleteExpenseStep(s)
        \/ UserRemoveFarmEnd(s)

SpecAsync == InitAsync /\ [][NextAsync]_vars

(***************************************************************************)
(* Properties of backup and restore                                        *)
(***************************************************************************)

Resolved(s, op) == tasks[s].op = op /\ tasks[s].pc = "done"

\* The records a sequence of puts by id leaves: for each id the last one.
LastById(seq) ==
    {seq[i] : i \in {j \in 1..Len(seq) :
                        \A k \in (j + 1)..Len(seq) : seq[k].id # seq[j].id}}

\* C1: a restore of the document an export just returned, on a store nothing
\* else modified, leaves farms (all fields, taskCompletions included),
\* expenses and selectedFarmId as they were before the export.
C1_RoundTrip ==
    \A s \in Slots :
        tasks[s].op = "import" /\ tasks[s].roundtrip =>
            /\ tasks[s].pc # "rejected"
            /\ tasks[s].pc = "done" =>
                /\ farms = tasks[s].pre.farms
                /\ expenses = tasks[s].pre.expenses
                /\ settings = tasks[s].pre.settings

C1_Witness ==
    \E s \in Slots :
        /\ Resolved(s, "import") /\ tasks[s].roundtrip
        /\ FarmB \in farms /\ FarmA \in farms
        /\ expenses # {}
        /\ GetSelectedFarmId(settings) # NoId

\* The argument null, or a document that has no version field.
NullOrNoVersion(d) == d.kind = "null" \/ d.version = ""

\* C2: importAllData given null or a document without version rejects with
\* the invalid-format error and the step changes none of the four stores.
C2_InvalidRejectedUnchanged ==
    [][\A s \in Slots :
          (/\ Quiescent(s)
           /\ tasks'[s] # tasks[s]
           /\ tasks'[s].op = "import"
           /\ NullOrNoVersion(tasks'[s].orig))
          => /\ tasks'[s].pc = "rejected"
             /\ tasks'[s].res = "Invalid backup file format"
             /\ UNCHANGED <<farms, expenses, settings, farmInfo>>]_vars

C2_Witness ==
    \E s \in Slots :
        /\ tasks[s].op = "import" /\ tasks[s].pc = "rejected"
        /\ tasks[s].orig = NoVersionDoc
        /\ farms = {FarmA, FarmB} /\ expenses # {}
        /\ settings # {} /\ farmInfo # {}

\* Every farm of the document carries an id, and no id occurs twice among
\* its farms nor among its expenses.
DistinctIds(seq) ==
    \A i, j \in 1..Len(seq) : seq[i].id = seq[j].id => i = j

WellFormed(d) ==
    /\ \A i \in 1..Len(FarmsOf(d)) : FarmsOf(d)[i].id # NoId
    /\ DistinctIds(FarmsOf(d))
    /\ DistinctIds(ExpensesOf(d))

\* C3 as stated: after a restore resolves, the farms store holds exactly the
\* farms of the document under their original ids and the expenses store
\* exactly its expenses.
C3_ExactlyDocument ==
    \A s \in Slots :
        Resolved(s, "import") =>
            /\ farms = Range(FarmsOf(tasks[s].orig))
            /\ expenses = Range(ExpensesOf(tasks[s].orig))

\* C3 amended: the same for a document whose farms all carry an id and in
\* which no id occurs twice among the farms nor among the expenses.
C3_ExactlyWellFormedDocument ==
    \A s \in Slots :
        Resolved(s, "import") /\ WellFormed(tasks[s].orig) =>
            /\ farms = Range(FarmsOf(tasks[s].orig))
            /\ expenses = Range(ExpensesOf(tasks[s].orig))

C3_Witness ==
    \E s \in Slots :
        /\ Resolved(s, "import") /\ WellFormed(tasks[s].orig)
        /\ ~tasks[s].roundtrip
        /\ tasks[s].orig.farms = <<FarmA, FarmB2>>
        /\ tasks[s].orig.expenses = <<ExpenseX, ExpenseY>>
        /\ farms = {FarmA, FarmB2}

\* What one uninterrupted restore of document d (its generated ids filled
\* in) leaves, begun on stores whose settings and farmInfo were as in pre.
RestoredFrom(d, pre) ==
    [farms |-> LastById(FarmsOf(d)),
     expenses |-> LastById(ExpensesOf(d)),
     settings |-> IF d.selectedFarmId # NoId
                  THEN SetSelectedFarmId(pre.settings, d.selectedFarmId)
                  ELSE pre.settings,
     farmInfo |-> pre.farmInfo]

\* C4: a restore cut short after its wipe and then run again to the end from
\* the same document leaves the stores as one uninterrupted restore of that
\* document would have.
C4_RerunAsSingleRestore ==
    \A s \in Slots :
        Resolved(s, "import") /\ tasks[s].retry =>
            Store = RestoredFrom(tasks[s].doc, tasks[s].pre)

(***************************************************************************)
(* Properties of the legacy migration                                      *)
(***************************************************************************)

LegacyOf(st) == KVGet(st.farmInfo, "farmInfo")

\* C5: from a legacy record, no farms and expenses without farmId, a
\* migration run to its end leaves exactly one farm with the legacy name,
\* size, startDate and cropping, selects it, and gives its id to every
\* expense that had no farmId (the others stay as they were); a run that
\* finds a farm adds no farm and changes no expense.
C5_MigrationResult ==
    \A s \in Slots :
        Resolved(s, "migrate") /\ tasks[s].pre.farmInfo # {} =>
            IF tasks[s].pre.farms = {}
            THEN \E f \in farms :
                    /\ farms = {f}
                    /\ f.id # NoId
                    /\ f.name = LegacyOf(tasks[s].pre).name
                    /\ f.size = LegacyOf(tasks[s].pre).size
                    /\ f.startDate = LegacyOf(tasks[s].pre).startDate
                    /\ f.cropping = LegacyOf(tasks[s].pre).cropping
                    /\ GetSelectedFarmId(settings) = f.id
                    /\ expenses =
                         {IF e.farmId = NoId THEN [e EXCEPT !.farmId = f.id] ELSE e :
                             e \in tasks[s].pre.expenses}
            ELSE /\ farms = tasks[s].pre.farms
                 /\ expenses = tasks[s].pre.expenses

C5_Witness ==
    \E s \in Slots :
        /\ Resolved(s, "migrate") /\ tasks[s].res = "migrated"
        /\ tasks[s].pre.farms = {}
        /\ tasks[s].pre.expenses = {ExpenseO1, ExpenseO2}
        /\ Cardinality(farms) = 1
        /\ \A e \in expenses : e.farmId = tasks[s].id

\* C6: a migration begun while the farms store holds a farm never writes:
\* at every point of the run farms, expenses and settings are as they were
\* when it began, with or without a legacy record.
C6_FarmsPresentNoAction ==
    \A s \in Slots :
        tasks[s].op = "migrate" /\ tasks[s].pre.farms # {} =>
            /\ farms = tasks[s].pre.farms
            /\ expenses = tasks[s].pre.expenses
            /\ settings = tasks[s].pre.settings
            /\ tasks[s].pc \in {"getFarms", "done"}

C6_Witness ==
    \E s \in Slots :
        /\ Resolved(s, "migrate") /\ tasks[s].res = "skipped"
        /\ tasks[s].pre.farmInfo # {}
        /\ farms = {FarmA}
        /\ expenses = {ExpenseO1, ExpenseO2}
        /\ settings = {}

\* C7: a migration run to its end after a reload cut an earlier run short
\* (its farm saved, the pointer or some expenses not yet written) leaves
\* exactly one farm, selectedFarmId pointing to it, and no expense without
\* a farmId.
C7_RetryCompletesMigration ==
    \A s \in Slots :
        Resolved(s, "migrate") /\ tasks[s].retry =>
            /\ Cardinality(farms) = 1
            /\ GetSelectedFarmId(settings) \in Keys(farms)
            /\ \A e \in expenses : e.farmId # NoId

(***************************************************************************)
(* Properties of saveFarm, saveExpense and farm removal under interleaving *)
(***************************************************************************)

\* C8: saveFarm of a farm without id returns a non-empty id that no farm in
\* the store (so no farm saved before, at whatever clock reading) already
\* has, and getFarm of that id yields the saved record.
C8_GeneratedIdUnique ==
    \A s \in Slots :
        Resolved(s, "saveFarm") /\ tasks[s].gen =>
            /\ tasks[s].id # NoId
            /\ tasks[s].fresh
            /\ GetFarm(farms, tasks[s].id) = tasks[s].fs[1]

\* Every stored expense's farmId is the id of a farm in the store.
ReferentialIntegrity == \A e \in expenses : HasKey(farms, e.farmId)

\* C9 as stated: referential integrity in every state, for every
\* interleaving of saveExpense (for a farm existing at the call), saveFarm
\* and removals performed as deleteExpensesByFarm(id) then deleteFarm(id).
C9_IntegrityEveryInterleaving == ReferentialIntegrity

\* C9 amended: referential integrity in every state reached by serialized
\* callers, that is while no call was started before another caller's
\* operation (a call in flight, or a removal between its two calls) ended.
C9_IntegrityWhenSerialized == ~hist.overlap => ReferentialIntegrity

C9_Witness ==
    \E s \in Slots :
        /\ ~hist.overlap
        /\ Resolved(s, "deleteFarm")
        /\ tasks[s].id = 1
        /\ farms = {FarmB}
        /\ expenses = {ExpenseY}

\* C10: when deleteExpensesByFarm(f) has resolved and no other caller began
\* anything meanwhile, getExpensesByFarm(f) is empty and the expenses of
\* other farms, the farms and the settings are as before the call.
C10_DeleteExpensesByFarmFrame ==
    \A s \in Slots :
        Resolved(s, "deleteExpensesByFarm") /\ tasks[s].solo =>
            /\ ExpensesByFarm(expenses, tasks[s].id) = <<>>
            /\ {e \in expenses : e.farmId # tasks[s].id} =
                   {e \in tasks[s].pre.expenses : e.farmId # tasks[s].id}
            /\ \A e \in expenses : e \in tasks[s].pre.expenses
            /\ farms = tasks[s].pre.farms
            /\ settings = tasks[s].pre.settings

C10_Witness ==
    \E s \in Slots :
        /\ Resolved(s, "deleteExpensesByFarm") /\ tasks[s].solo
        /\ tasks[s].id = 1
        /\ tasks[s].pre.expenses = {ExpenseX, ExpenseY}
        /\ expenses = {ExpenseY}
        /\ farms = {FarmA, FarmB}

(***************************************************************************)
(* markFarmCompleted, markFarmActive, saveTaskCompletion,                  *)
(* deleteTaskCompletion: each reads the farm with getFarm, changes the     *)
(* object it got and writes it back with saveFarm.                         *)
(***************************************************************************)

\* The mark and task-completion calls made in one behaviour.
MaxCalls == 2

\* 1000 * 60 * 60 * 24: the instants of a day of nominal length.  Dates are
\* instants.
DayLen == 2

\* The local calendar of the runtime (setHours works in local time): the day
\* the clocks go forward is one instant shorter than DayLen, the day they go
\* back one instant longer.
SpringDay == 1

FallDay == 3

\* The instant at which local calendar day d starts.
DayStart(d) ==
    d * DayLen - (IF d > SpringDay THEN 1 ELSE 0) + (IF d > FallDay THEN 1 ELSE 0)

\* The local calendar day an instant falls on.
DayOf(x) == CHOOSE d \in 0..x : DayStart(d) <= x /\ x < DayStart(d + 1)

\* new Date(x) followed by setHours(0, 0, 0, 0).
Midnight(x) == DayStart(DayOf(x))

\* Math.floor((completed - scheduled) / (1000 * 60 * 60 * 24))
DelayDays(scheduledDate, completedDate) ==
    (Midnight(completedDate) - Midnight(scheduledDate)) \div DayLen

\* Missing that never holds (no test of what getFarm returned).
MissingNever(farm) == FALSE

\* `!farm` for what getFarm returned.
Missing(farm) == farm = NoFarm

\* farm.taskCompletions, after `if (!farm.taskCompletions) farm.taskCompletions = []`.
Completions(farm) ==
    IF farm.taskCompletions.defined THEN farm.taskCompletions.items ELSE <<>>

\* tc.stageIndex === stageIndex && tc.taskIndex === taskIndex
SamePair(tc, stageIndex, taskIndex) ==
    tc.stageIndex = stageIndex /\ tc.taskIndex = taskIndex

\* findIndex: the first matching position (from 1), 0 when there is none.
ExistingIndex(items, stageIndex, taskIndex) ==
    LET hits == {i \in 1..Len(items) : SamePair(items[i], stageIndex, taskIndex)}
    IN  IF hits = {} THEN 0 ELSE CHOOSE i \in hits : \A j \in hits : i <= j

\* Upsert that leaves an existing entry as it is.
UpsertKeep(items, completion) ==
    IF ExistingIndex(items, completion.stageIndex, completion.taskIndex) > 0
    THEN items
    ELSE Append(items, completion)

\* Upsert that pushes without looking for an existing entry.
UpsertPush(items, completion) == Append(items, completion)

\* if (existingIndex >= 0) taskCompletions[existingIndex] = completion
\* else taskCompletions.push(completion)
Upsert(items, completion) ==
    LET k == ExistingIndex(items, completion.stageIndex, completion.taskIndex)
    IN  IF k > 0 THEN [items EXCEPT ![k] = completion]
        ELSE Append(items, completion)

\* taskCompletions.filter(tc => !(same pair))
RemovePair(items, stageIndex, taskIndex) ==
    SelectSeq(items, LAMBDA tc : ~SamePair(tc, stageIndex, taskIndex))

\* The completion object saveTaskCompletion builds; t is the reading of
\* new Date() (one reading stands for those of one synchronous stretch).
Completion(args, t) ==
    [stageIndex |-> args.stageIndex, taskIndex |-> args.taskIndex,
     scheduledDate |-> args.scheduledDate, completedDate |-> args.completedDate,
     delayDays |-> DelayDays(args.scheduledDate, args.completedDate),
     timestamp |-> t]

\* MarkedActive that leaves completedDate as it is.
MarkedActiveKeepDate(farm, t) ==
    [farm EXCEPT !.completed = "false", !.updatedAt = t]

\* markFarmCompleted: completed = true, completedDate and updatedAt = new Date()
MarkedCompleted(farm, t) ==
    [farm EXCEPT !.completed = "true", !.completedDate = t, !.updatedAt = t]

\* markFarmActive: completed = false, completedDate = null, updatedAt = new Date()
MarkedActive(farm, t) ==
    [farm EXCEPT !.completed = "false", !.completedDate = NoId, !.updatedAt = t]

\* saveTaskCompletion's changes to the farm object.
WithCompletion(farm, args, t) ==
    [farm EXCEPT !.taskCompletions =
                     [defined |-> TRUE,
                      items |-> Upsert(Completions(farm), Completion(args, t))],
                 !.updatedAt = t]

\* deleteTaskCompletion's changes to the farm object.
WithoutCompletion(farm, args, t) ==
    [farm EXCEPT !.taskCompletions =
                     [defined |-> TRUE,
                      items |-> RemovePair(farm.taskCompletions.items,
                                           args.stageIndex, args.taskIndex)],
                 !.updatedAt = t]

\* const farm = await getFarm(farmId); if (!farm) throw new Error('Farm not found')
\* (deleteTaskCompletion: if (!farm || !farm.taskCompletions) return).
FarmOpCall(s, op, farmId, args) ==
    /\ Quiescent(s)
    /\ hist.calls < MaxCalls
    /\ LET farm == GetFarm(farms, farmId)
           t0 == [NewTask(op, "put") EXCEPT
                     !.id = farmId, !.args = args, !.fs = <<farm>>,
                     !.pre = EmptyStores]
       IN  IF op = "deleteTaskCompletion"
           THEN IF Missing(farm) \/ ~farm.taskCompletions.defined
                THEN StartCounted(s, [t0 EXCEPT !.pc = "done", !.res = "ok"], 1)
                ELSE StartCounted(s, t0, 1)
           ELSE IF Missing(farm)
                THEN StartCounted(s, [t0 EXCEPT !.pc = "rejected", !.res = "Farm not found"], 1)
                ELSE StartCounted(s, t0, 1)
    /\ UNCHANGED <<farms, expenses, settings, farmInfo, db, notifier, worker, clock>>

\* await saveFarm(farm) for the changed farm object: the put that ends the call.
FarmOpPut(s, op, farm, t) ==
    /\ tasks[s].op = op /\ tasks[s].pc = "put"
    /\ farms' = StorePut(farms, FarmWithId(farm, t))
    /\ clock' = t
    /\ tasks' = [tasks EXCEPT ![s].pc = "done", ![s].res = "ok"]
    /\ UNCHANGED <<expenses, settings, farmInfo, db, notifier, worker, hist>>

MarkFarmCompletedPut(s) ==
    \E t \in Now :
        FarmOpPut(s, "markFarmCompleted", MarkedCompleted(tasks[s].fs[1], t), t)

MarkFarmActivePut(s) ==
    \E t \in Now :
        FarmOpPut(s, "markFarmActive", MarkedActive(tasks[s].fs[1], t), t)

\* SaveTaskCompletionPut that adds its completion to the farm as stored at
\* the time of the write, not to the farm object the call read.
SaveTaskCompletionPutMerge(s) ==
    \E t \in Now :
        FarmOpPut(s, "saveTaskCompletion",
                  WithCompletion(GetFarm(farms, tasks[s].id), tasks[s].args, t), t)

SaveTaskCompletionPut(s) ==
    \E t \in Now :
        FarmOpPut(s, "saveTaskCompletion",
                  WithCompletion(tasks[s].fs[1], tasks[s].args, t), t)

DeleteTaskCompletionPut(s) ==
    \E t \in Now :
        FarmOpPut(s, "deleteTaskCompletion",
                  WithoutCompletion(tasks[s].fs[1], tasks[s].args, t), t)

\* The truth value JavaScript gives farm.completed: true is truthy; false
\* and a missing property are falsy.
Truthy(completed) == completed = "true"

\* getAllFarms: store.getAll()
AllFarms(st) == SortedByKey(st)

\* ActiveFarms that takes only the farms whose completed is false.
ActiveFarmsFalseOnly(st) == SelectSeq(AllFarms(st), LAMBDA f : f.completed = "false")

\* getActiveFarms: allFarms.filter(farm => !farm.completed)
ActiveFarms(st) == SelectSeq(AllFarms(st), LAMBDA f : ~Truthy(f.completed))

\* getCompletedFarms: allFarms.filter(farm => farm.completed)
CompletedFarms(st) == SelectSeq(AllFarms(st), LAMBDA f : Truthy(f.completed))

(***************************************************************************)
(* SpecFarm: the startup migration and two callers whose calls interleave: *)
(* saveFarm of new farms, the two marks, and the task completions.         *)
(***************************************************************************)

\* The farm ids the callers pass: one that is in the store at first and one
\* that never is.
FarmIds == {1, 9}

\* (stageIndex, taskIndex, scheduledDate, completedDate) the callers pass.
TaskArgs ==
    {[stageIndex |-> 0, taskIndex |-> a[1], scheduledDate |-> a[2], completedDate |-> a[3]] :
        a \in {<<0, 2, 5>>, <<0, 3, 1>>, <<1, 2, 5>>}}

UserMarkFarmCompleted(s) ==
    \E id \in FarmIds : FarmOpCall(s, "markFarmCompleted", id, NoArgs)

UserMarkFarmActive(s) ==
    \E id \in FarmIds : FarmOpCall(s, "markFarmActive", id, NoArgs)

UserSaveTaskCompletion(s) ==
    \E id \in FarmIds : \E args \in TaskArgs :
        FarmOpCall(s, "saveTaskCompletion", id, args)

UserDeleteTaskCompletion(s) ==
    \E id \in FarmIds : \E args \in TaskArgs :
        FarmOpCall(s, "deleteTaskCompletion", id,
                   [args EXCEPT !.scheduledDate = 0, !.completedDate = 0])

InitFarm ==
    /\ farms \in {{}, {FarmA, FarmB}, {FarmAT, FarmB}}
    /\ expenses = {}
    /\ settings = {}
    /\ farmInfo \in InitFarmInfo
    /\ clock = MaxClock - 1
    /\ tasks = [s \in Slots |-> IF s = "a" THEN StartupTask ELSE IdleTask]
    /\ hist = NoHist
    /\ db = OpenDB
    /\ notifier = IdleNotifier
    /\ worker = IdleWorker

NextFarm ==
    \/ MigrateCall("a")
    \/ MigrateGetFarms("a")
    \/ MigrateSaveFarm("a")
    \/ MigrateSelect("a")
    \/ MigrateGetExpenses("a")
    \/ \E s \in Slots :
        \/ UserSaveNewFarm(s)
        \/ UserMarkFarmCompleted(s)
        \/ MarkFarmCompletedPut(s)
        \/ UserMarkFarmActive(s)
        \/ MarkFarmActivePut(s)
        \/ UserSaveTaskCompletion(s)
        \/ SaveTaskCompletionPut(s)
        \/ UserDeleteTaskCompletion(s)
        \/ DeleteTaskCompletionPut(s)

SpecFarm == InitFarm /\ [][NextFarm]_vars

(***************************************************************************)
(* Properties of the marks and the task completions                        *)
(***************************************************************************)

\* No two entries of the list have the same (stageIndex, taskIndex).
NoDuplicatePairs(items) ==
    \A i, j \in 1..Len(items) :
        SamePair(items[i], items[j].stageIndex, items[j].taskIndex) => i = j

\* C11: in every state reached through saveTaskCompletion,
\* deleteTaskCompletion, markFarmCompleted and markFarmActive, in any
\* interleaving, each farm's taskCompletions holds at most one entry per
\* (stageIndex, taskIndex).
C11_OneEntryPerPair ==
    \A f \in farms : NoDuplicatePairs(Completions(f))

C11_Witness ==
    /\ \A s \in Slots : Resolved(s, "saveTaskCompletion") /\ tasks[s].id = 1
    /\ tasks["a"].args.taskIndex = tasks["b"].args.taskIndex
    /\ tasks["a"].args # tasks["b"].args
    /\ hist.overlap
    /\ Len(Completions(GetFarm(farms, 1))) = 1

\* C12: a saveTaskCompletion that has run with nothing else started
\* meanwhile leaves exactly one entry for its pair, carrying its
\* scheduledDate, completedDate and delayDays, and every entry of another pair
\* as it was and where it was; when the pair had an entry already (a second
\* call after a first), the list has not grown.
C12_SecondUpsertReplaces ==
    \A s \in Slots :
        Resolved(s, "saveTaskCompletion") /\ tasks[s].solo =>
            LET a == tasks[s].args
                before == Completions(tasks[s].fs[1])
                after == Completions(GetFarm(farms, tasks[s].id))
                mine(tc) == SamePair(tc, a.stageIndex, a.taskIndex)
            IN  /\ Cardinality({i \in 1..Len(after) : mine(after[i])}) = 1
                /\ \A i \in 1..Len(after) :
                     mine(after[i]) =>
                        /\ after[i].scheduledDate = a.scheduledDate
                        /\ after[i].completedDate = a.completedDate
                        /\ after[i].delayDays =
                              DelayDays(a.scheduledDate, a.completedDate)
                /\ \A i \in 1..Len(before) :
                     ~mine(before[i]) => i <= Len(after) /\ after[i] = before[i]
                /\ \A i \in 1..Len(after) :
                     ~mine(after[i]) => i <= Len(before)
                /\ ExistingIndex(before, a.stageIndex, a.taskIndex) > 0
                      => Len(after) = Len(before)

C12_Witness ==
    \E s \in Slots :
        /\ Resolved(s, "saveTaskCompletion") /\ tasks[s].solo
        /\ hist.calls = 2 /\ ~hist.overlap
        /\ tasks[s].args.taskIndex = 0 /\ tasks[s].args.completedDate = 5
        /\ LET before == Completions(tasks[s].fs[1])
           IN  /\ Len(before) = 3
               /\ before[3].taskIndex = 0 /\ before[3].completedDate = 1
        /\ Len(Completions(GetFarm(farms, 1))) = 3

\* The farm's fields other than completed, completedDate and updatedAt.
OtherFields(f) ==
    [f EXCEPT !.completed = "absent", !.completedDate = NoId, !.updatedAt = NoId]

\* C13: markFarmActive(id) on a farm that markFarmCompleted(id) left
\* completed, run with nothing else started meanwhile, leaves completed false
\* and completedDate absent, the fields other than updatedAt as they were,
\* and each of the two calls stores an updatedAt greater than the one it
\* found.
C13_CompletedThenActive ==
    \A s \in Slots :
        /\ Resolved(s, "markFarmCompleted") /\ tasks[s].solo =>
              LET before == tasks[s].fs[1]
                  after == GetFarm(farms, tasks[s].id)
              IN  /\ after.completed = "true" /\ after.completedDate # NoId
                  /\ OtherFields(after) = OtherFields(before)
                  /\ after.updatedAt > before.updatedAt
        /\ Resolved(s, "markFarmActive") /\ tasks[s].solo =>
              LET before == tasks[s].fs[1]
                  after == GetFarm(farms, tasks[s].id)
              IN  /\ after.completed = "false" /\ after.completedDate = NoId
                  /\ OtherFields(after) = OtherFields(before)
                  /\ after.updatedAt > before.updatedAt

\* The ids of the farms of a list.
IdsOf(seq) == {seq[i].id : i \in 1..Len(seq)}

\* C14: on any one store state the ids getActiveFarms returns and the ids
\* getCompletedFarms returns are disjoint and together are the ids
\* getAllFarms returns; a farm without the completed property is active.
C14_ActiveCompletedPartition ==
    /\ IdsOf(ActiveFarms(farms)) \cap IdsOf(CompletedFarms(farms)) = {}
    /\ IdsOf(ActiveFarms(farms)) \cup IdsOf(CompletedFarms(farms)) = IdsOf(AllFarms(farms))
    /\ \A f \in farms : f.completed = "absent" => f.id \in IdsOf(ActiveFarms(farms))

C14_Witness ==
    /\ \E f \in farms : f.completed = "absent"
    /\ \E f \in farms : f.completed = "false"
    /\ \E f \in farms : f.completed = "true"
    /\ Len(ActiveFarms(farms)) = 2
    /\ Len(CompletedFarms(farms)) = 1

\* C15: in every state reached through saveFarm of new farms, the migration,
\* the two marks and the task-completion calls, in any interleaving, a stored
\* farm has a completedDate exactly when its completed flag is true.
C15_CompletedDateIffCompleted ==
    \A f \in farms : (f.completedDate # NoId) <=> Truthy(f.completed)

C15_Witness ==
    \E s \in Slots :
        /\ Resolved(s, "markFarmActive")
        /\ tasks[s].fs[1].completed = "true" /\ tasks[s].fs[1].completedDate # NoId
        /\ GetFarm(farms, tasks[s].id).completed = "false"
        /\ hist.overlap
        /\ Cardinality(farms) = 3

\* C16: a markFarmCompleted, markFarmActive or saveTaskCompletion called with
\* a farm id that is not in the store rejects with 'Farm not found', and the
\* call changes none of farms, expenses, settings and the legacy record.
C16_NotFoundRejectsUnchanged ==
    [][\A s \in Slots :
          (/\ Quiescent(s)
           /\ tasks'[s] # tasks[s]
           /\ tasks'[s].op \in {"markFarmCompleted", "markFarmActive",
                                "saveTaskCompletion"}
           /\ ~HasKey(farms, tasks'[s].id))
          => /\ tasks'[s].pc = "rejected"
             /\ tasks'[s].res = "Farm not found"
             /\ UNCHANGED <<farms, expenses, settings, farmInfo>>]_vars

C16_Witness ==
    \E s \in Slots :
        /\ tasks[s].op = "saveTaskCompletion" /\ tasks[s].pc = "rejected"
        /\ tasks[s].res = "Farm not found"
        /\ tasks[s].id = 9
        /\ farms = {FarmAT, FarmB}

\* C20: every step that writes a farm record (saveFarm as insert or update,
\* the migration's save, the marks, the task-completion calls) stores it with
\* updatedAt equal to the clock reading of the operation.
C20_UpdatedAtRefreshed ==
    [][\A f \in farms' : f \notin farms => f.updatedAt = clock']_vars

(***************************************************************************)
(* Opening the database, and storage requests that fail.  A request of an  *)
(* open database may fail (request.onerror); when the open itself failed,  *)
(* dbPromise stays rejected and `await getDB()` throws in every operation.  *)
(***************************************************************************)

\* onupgradeneeded: each store of STORES that does not exist is created along
\* with its indexes; a store that exists is left as it is.
Upgraded(schema) ==
    schema \cup UNION {CreatedWith(store) : store \in StoreNames \ schema}

\* initDB(): indexedDB.open(DB_NAME, DB_VERSION) succeeds; the upgrade runs
\* when the version on disk is older.
InitDBOpen ==
    /\ db.conn = "unopened"
    /\ db' = [db EXCEPT !.conn = "open", !.version = DB_VERSION,
                        !.schema = IF db.version < DB_VERSION
                                   THEN Upgraded(db.schema) ELSE db.schema]
    /\ UNCHANGED <<farms, expenses, settings, farmInfo, clock, tasks, hist, notifier, worker>>

\* initDB(): request.onerror; the startup chain's catch logs the error and
\* migrateLegacyData is not run.
InitDBFails ==
    /\ db.conn = "unopened"
    /\ db' = [db EXCEPT !.conn = "failed"]
    /\ tasks' = [tasks EXCEPT !["a"] =
                    [StartupTask EXCEPT !.pc = "done", !.res = "open-failed",
                                        !.failed = TRUE]]
    /\ UNCHANGED <<farms, expenses, settings, farmInfo, clock, hist, notifier, worker>>

\* The database is open: requests can be issued.
Healthy == db.conn = "open"

\* A storage request can fail: one issued on the open database, or none at
\* all because getDB() throws.
CanFail == db.conn \in {"open", "failed"}

\* store.index('farmId') throws NotFoundError when the index does not exist.
IndexMissing(op) == op = "getExpensesByFarm" /\ "expenses.farmId" \notin db.schema

\* The read operations, each one storage request inside try / catch.
ReadOps ==
    {"getAllFarms", "getFarm", "getAllExpenses", "getExpensesByFarm", "getItem",
     "getSelectedFarmId", "getTaskCompletions", "getActiveFarms",
     "getCompletedFarms"}

\* What the catch block of a read operation returns (getTaskCompletions,
\* getActiveFarms and getCompletedFarms get it from getFarm / getAllFarms).
ReadFallback(op) ==
    IF op \in {"getFarm", "getItem", "getSelectedFarmId"} THEN "null" ELSE "[]"

\* A read operation whose request succeeds: it resolves with what it read.
ReadCall(s, op, id) ==
    /\ Quiescent(s)
    /\ Healthy /\ ~IndexMissing(op)
    /\ Start(s, [NewTask(op, "done") EXCEPT
                    !.id = id, !.res = "ok", !.pre = EmptyStores,
                    !.fs = CASE op = "getAllFarms" -> AllFarms(farms)
                             [] op = "getActiveFarms" -> ActiveFarms(farms)
                             [] op = "getCompletedFarms" -> CompletedFarms(farms)
                             [] op \in {"getFarm", "getTaskCompletions"} ->
                                   <<GetFarm(farms, id)>>
                             [] OTHER -> <<>>,
                    !.es = CASE op = "getAllExpenses" -> SortedByKey(expenses)
                             [] op = "getExpensesByFarm" -> ExpensesByFarm(expenses, id)
                             [] OTHER -> <<>>])
    /\ UNCHANGED <<farms, expenses, settings, farmInfo, db, notifier, worker, clock>>

\* A read operation whose request fails: catch logs and returns [] or null,
\* so the operation resolves.
ReadFails(s, op, id) ==
    /\ Quiescent(s)
    /\ CanFail
    /\ Start(s, [NewTask(op, "done") EXCEPT
                    !.id = id, !.res = ReadFallback(op), !.failed = TRUE,
                    !.pre = EmptyStores])
    /\ UNCHANGED <<farms, expenses, settings, farmInfo, db, notifier, worker, clock>>

\* The write operations that are one storage request: catch logs and rethrows.
SingleWriteOps ==
    {"saveFarm", "saveExpense", "deleteFarm", "deleteExpense", "setSelectedFarmId"}

SingleWriteFails(s, op) ==
    /\ Quiescent(s)
    /\ CanFail
    /\ Start(s, [NewTask(op, "rejected") EXCEPT
                    !.res = "StorageError", !.failed = TRUE,
                    !.pre = EmptyStores])
    /\ UNCHANGED <<farms, expenses, settings, farmInfo, db, notifier, worker, clock>>

\* deleteExpensesByFarm whose getExpensesByFarm fails: it gets [], deletes
\* nothing and resolves.
DeleteExpensesReadFails(s, farmId) ==
    /\ Quiescent(s)
    /\ CanFail
    /\ Start(s, [NewTask("deleteExpensesByFarm", "done") EXCEPT
                    !.id = farmId, !.res = "ok", !.failed = TRUE,
                    !.pre = EmptyStores])
    /\ UNCHANGED <<farms, expenses, settings, farmInfo, db, notifier, worker, clock>>

\* deleteExpensesByFarm whose deleteExpense fails: rethrown.
DeleteExpenseStepFails(s) ==
    /\ tasks[s].op = "deleteExpensesByFarm" /\ tasks[s].pc = "delete"
    /\ tasks' = [tasks EXCEPT ![s].pc = "rejected", ![s].res = "StorageError",
                              ![s].failed = TRUE]
    /\ UNCHANGED <<farms, expenses, settings, farmInfo, db, notifier, worker, clock, hist>>

\* A mark or task-completion call whose getFarm fails: getFarm returns null,
\* which the caller takes for "no such farm".
FarmOpReadFails(s, op, farmId, args) ==
    /\ Quiescent(s)
    /\ hist.calls < MaxCalls
    /\ CanFail
    /\ LET t0 == [NewTask(op, "rejected") EXCEPT
                     !.id = farmId, !.args = args, !.pre = EmptyStores,
                     !.res = "Farm not found", !.failed = TRUE]
       IN  IF op = "deleteTaskCompletion"
           THEN StartCounted(s, [t0 EXCEPT !.pc = "done", !.res = "ok"], 1)
           ELSE StartCounted(s, t0, 1)
    /\ UNCHANGED <<farms, expenses, settings, farmInfo, db, notifier, worker, clock>>

\* A mark or task-completion call whose saveFarm fails: rethrown.
FarmOpPutFails(s) ==
    /\ tasks[s].pc = "put"
    /\ tasks' = [tasks EXCEPT ![s].pc = "rejected", ![s].res = "StorageError",
                              ![s].failed = TRUE]
    /\ UNCHANGED <<farms, expenses, settings, farmInfo, db, notifier, worker, clock, hist>>

\* migrateLegacyData whose getItem('farmInfo') fails: getItem's catch returns
\* null, which the migration takes for "no legacy data".
MigrateGetItemFails(s) ==
    /\ tasks[s].op = "startup" /\ tasks[s].pc = "startup"
    /\ tasks' = [tasks EXCEPT ![s] =
                    [NewTask("migrate", "done") EXCEPT
                        !.res = "no-legacy", !.failed = TRUE]]
    /\ UNCHANGED <<farms, expenses, settings, farmInfo, db, notifier, worker, clock, hist>>

\* migrateLegacyData whose getAllFarms fails: getAllFarms' catch returns [],
\* farms.length is 0 and the migration goes on to create the farm.
MigrateGetFarmsFails(s) ==
    /\ tasks[s].op = "migrate" /\ tasks[s].pc = "getFarms"
    /\ tasks' = [tasks EXCEPT ![s].pc = "saveFarm", ![s].failed = TRUE]
    /\ UNCHANGED <<farms, expenses, settings, farmInfo, db, notifier, worker, clock, hist>>

\* migrateLegacyData whose getAllExpenses fails: its catch returns [], the
\* loop runs over nothing and the migration ends.
MigrateGetExpensesFails(s) ==
    /\ tasks[s].op = "migrate" /\ tasks[s].pc = "getExpenses"
    /\ tasks' = [tasks EXCEPT ![s].pc = "done", ![s].res = "migrated",
                              ![s].failed = TRUE]
    /\ UNCHANGED <<farms, expenses, settings, farmInfo, db, notifier, worker, clock, hist>>

\* MigrateWriteFails whose catch rethrows, as the catch of the write
\* operations does.
MigrateWriteFailsRethrow(s) ==
    /\ tasks[s].op = "migrate" /\ tasks[s].pc \in {"saveFarm", "select", "expenses"}
    /\ tasks' = [tasks EXCEPT ![s].pc = "rejected", ![s].res = "StorageError",
                              ![s].failed = TRUE]
    /\ UNCHANGED <<farms, expenses, settings, farmInfo, db, notifier, worker, clock, hist>>

\* migrateLegacyData whose saveFarm, setSelectedFarmId or saveExpense rejects:
\* the catch of migrateLegacyData logs the error and the function returns.
MigrateWriteFails(s) ==
    /\ tasks[s].op = "migrate" /\ tasks[s].pc \in {"saveFarm", "select", "expenses"}
    /\ tasks' = [tasks EXCEPT ![s].pc = "done", ![s].res = "failed",
                              ![s].failed = TRUE]
    /\ UNCHANGED <<farms, expenses, settings, farmInfo, db, notifier, worker, clock, hist>>

(***************************************************************************)
(* SpecStorage: a database found on disk is opened, then one caller makes  *)
(* calls one after the other (the startup migration, reads, failing        *)
(* writes, farm removal, markFarmCompleted); every storage request may     *)
(* fail.                                                                   *)
(***************************************************************************)

\* What version 1 left on disk: no farms store, expenses without the farmId
\* index.
V1Schema ==
    {"farmInfo", "expenses", "expenses.date", "expenses.category", "settings"}

\* A version 1 database that holds only the expenses store, fully indexed.
ExpensesOnlySchema == CreatedWith("expenses")

\* The legacy record of a single-farm installation.
LegacyStore == {[key |-> "farmInfo", value |-> LegacyFarm]}

\* The databases found on disk: none, the two older ones (the first with its
\* legacy record), the current one without and with a legacy record.
DiskDatabases ==
    {[version |-> 0, schema |-> {}, farms |-> {}, expenses |-> {}, farmInfo |-> {}],
     [version |-> 1, schema |-> V1Schema, farms |-> {}, expenses |-> {ExpenseO1},
      farmInfo |-> LegacyStore],
     [version |-> 1, schema |-> ExpensesOnlySchema, farms |-> {},
      expenses |-> {ExpenseO1}, farmInfo |-> {}],
     [version |-> DB_VERSION, schema |-> FullSchema, farms |-> {FarmA, FarmB},
      expenses |-> {ExpenseX, ExpenseY}, farmInfo |-> {}],
     [version |-> DB_VERSION, schema |-> FullSchema, farms |-> {FarmA},
      expenses |-> {ExpenseX}, farmInfo |-> LegacyStore]}

FarmOps ==
    {"markFarmCompleted", "markFarmActive", "saveTaskCompletion",
     "deleteTaskCompletion"}

InitStorage ==
    /\ \E d \in DiskDatabases :
          /\ db = [conn |-> "unopened", version |-> d.version,
                   schema |-> d.schema, old |-> d.schema]
          /\ farms = d.farms
          /\ expenses = d.expenses
          /\ farmInfo = d.farmInfo
    /\ settings = {}
    /\ clock = MaxClock - 1
    /\ tasks = [s \in Slots |-> IF s = "a" THEN StartupTask ELSE IdleTask]
    /\ hist = NoHist
    /\ notifier = IdleNotifier
    /\ worker = IdleWorker

NextStorage ==
    \/ InitDBOpen
    \/ InitDBFails
    \/ Healthy /\ MigrateCall("a")
    \/ Healthy /\ MigrateGetItemFails("a")
    \/ Healthy /\ MigrateGetFarms("a")
    \/ MigrateGetFarmsFails("a")
    \/ Healthy /\ MigrateSaveFarm("a")
    \/ Healthy /\ MigrateSelect("a")
    \/ Healthy /\ MigrateGetExpenses("a")
    \/ MigrateGetExpensesFails("a")
    \/ Healthy /\ MigrateExpense("a")
    \/ MigrateWriteFails("a")
    \/ \E op \in ReadOps : \E id \in FarmIds : ReadCall("a", op, id)
    \/ \E op \in ReadOps : \E id \in FarmIds : ReadFails("a", op, id)
    \/ \E op \in SingleWriteOps : SingleWriteFails("a", op)
    \/ Healthy /\ UserRemoveFarmBegin("a")
    \/ \E id \in FarmIds : DeleteExpensesReadFails("a", id)
    \/ Healthy /\ DeleteExpenseStep("a")
    \/ DeleteExpenseStepFails("a")
    \/ Healthy /\ UserRemoveFarmEnd("a")
    \/ Healthy /\ UserMarkFarmCompleted("a")
    \/ \E op \in FarmOps : \E id \in FarmIds :
          FarmOpReadFails("a", op, id, NoArgs)
    \/ Healthy /\ MarkFarmCompletedPut("a")
    \/ FarmOpPutFails("a")

SpecStorage == InitStorage /\ [][NextStorage]_vars

(***************************************************************************)
(* Properties of opening the database and of failing requests.             *)
(***************************************************************************)

\* C17: once initDB has resolved, whatever older schema was on disk, the four
\* stores and the four indexes all exist, and every store and index that was
\* on disk is still there.
C17_SchemaCompleteAfterInit ==
    db.conn = "open" => /\ FullSchema \subseteq db.schema
                        /\ db.old \subseteq db.schema

\* The operations of the API (the startup chain is not one of them).
WriteOps == SingleWriteOps \cup FarmOps \cup {"deleteExpensesByFarm"}

ApiOps == ReadOps \cup WriteOps

\* C18: when the database could not be opened, every operation of the API that
\* settles, a read included, has reported a failure to its caller: none has
\* resolved with an ordinary result such as [] or null.
C18_OpenFailureReported ==
    db.conn = "failed" =>
        \A s \in Slots :
            (tasks[s].op \in ApiOps /\ tasks[s].pc \in {"done", "rejected"})
                => tasks[s].pc = "rejected"

\* C19: a write-path operation one of whose storage requests failed (a read
\* made on its behalf included) has rejected with the storage error; it has
\* not resolved, and it has not rejected with another error.
C19_WriteFailureRejects ==
    \A s \in Slots :
        (tasks[s].op \in WriteOps /\ tasks[s].failed)
            => /\ tasks[s].pc = "rejected"
               /\ tasks[s].res = "StorageError"


(***************************************************************************)
(* Properties of the task-completion calls (continued).                    *)
(***************************************************************************)

\* The completions stored for farm `id`.
StoredCompletions(store, id) ==
    IF HasKey(store, id) THEN Completions(StoreGet(store, id)) ELSE <<>>

\* The difference in whole calendar days between two dates.
CalendarDays(scheduledDate, completedDate) ==
    DayOf(completedDate) - DayOf(scheduledDate)

\* C21: the completion saveTaskCompletion stores carries as delayDays the
\* number of calendar days from the day of scheduledDate to the day of
\* completedDate: 0 on the same day, positive when late, negative when early.
C21_DelayIsCalendarDays ==
    [][\A s \in Slots :
          (tasks[s].op = "saveTaskCompletion" /\ tasks[s].pc = "put"
           /\ tasks'[s].pc = "done")
          => \A i \in DOMAIN StoredCompletions(farms', tasks[s].id) :
                LET tc == StoredCompletions(farms', tasks[s].id)[i]
                IN  SamePair(tc, tasks[s].args.stageIndex, tasks[s].args.taskIndex)
                    => tc.delayDays =
                          CalendarDays(tasks[s].args.scheduledDate,
                                       tasks[s].args.completedDate)]_vars


\* The list holds an entry for the pair.
HasPair(items, stageIndex, taskIndex) ==
    \E i \in DOMAIN items : SamePair(items[i], stageIndex, taskIndex)

\* C22: a deleteTaskCompletion for a pair that has no entry (the farm is not
\* stored, has no taskCompletions, or has a list without the pair) changes
\* nothing: each step of the call leaves the stores, the farm's updatedAt
\* included, as they were.
C22_DeleteAbsentPairNoOp ==
    [][\A s \in Slots :
          (/\ tasks'[s].op = "deleteTaskCompletion"
           /\ tasks'[s] # tasks[s]
           /\ LET farm == tasks'[s].fs[1]
              IN  \/ Missing(farm)
                  \/ ~HasPair(Completions(farm), tasks'[s].args.stageIndex,
                              tasks'[s].args.taskIndex))
          => UNCHANGED <<farms, expenses, settings, farmInfo>>]_vars


(***************************************************************************)
(* Properties of the restore (continued).                                  *)
(***************************************************************************)

\* C23: importAllData of a versioned document without a farms list, or without
\* an expenses list (absent, or not an array), does not reject, and when it
\* has resolved the store of the missing list is empty and the count returned
\* for it is 0.
C23_MissingListAsEmpty ==
    \A s \in Slots :
        (tasks[s].op = "import" /\ ~NullOrNoVersion(tasks[s].orig))
        => /\ ~tasks[s].orig.farmsIsArray =>
                /\ tasks[s].pc # "rejected"
                /\ tasks[s].pc = "done" =>
                      farms = {} /\ tasks[s].stats.farmsImported = 0
           /\ ~tasks[s].orig.expensesIsArray =>
                /\ tasks[s].pc # "rejected"
                /\ tasks[s].pc = "done" =>
                      expenses = {} /\ tasks[s].stats.expensesImported = 0


(***************************************************************************)
(* Properties of the legacy record and of a migration that fails.          *)
(***************************************************************************)

\* C24: no step of the migration (run to its end, skipped or cut short), of a
\* restore, or of a farm or expense operation changes the legacy record.
C24_LegacyRecordKept ==
    [][farmInfo' = farmInfo]_vars

C24_Witness ==
    \E s \in Slots :
        /\ Resolved(s, "import") /\ tasks[s].orig = NoExpensesDoc
        /\ farmInfo = {[key |-> "farmInfo", value |-> LegacyFarm]}
        /\ farms = {FarmA, FarmB2} /\ expenses = {}
        /\ GetSelectedFarmId(settings) = 2


\* C25: migrateLegacyData never rejects.  Whatever storage call of it fails,
\* it resolves (so the startup chain completes), and the step at which a
\* write of it fails leaves in the stores what was committed before.
C25_MigrationNeverRejects ==
    [][\A s \in Slots :
          tasks'[s].op = "migrate" =>
             /\ tasks'[s].pc # "rejected"
             /\ tasks'[s].res = "failed" =>
                   /\ tasks'[s].pc = "done"
                   /\ tasks[s].res # "failed" =>
                         UNCHANGED <<farms, expenses, settings, farmInfo>>]_vars

C25_Witness ==
    /\ tasks["a"].op = "migrate" /\ tasks["a"].pc = "done"
    /\ tasks["a"].res = "failed"
    /\ tasks["a"].pre.farms = {}
    /\ Cardinality(farms) = 1
    /\ settings = {}
    /\ expenses = {ExpenseO1}


(***************************************************************************)
(* getExpensesByDateRange.  The keys of the 'date' index are strings and   *)
(* IndexedDB orders them code unit by code unit.  A string is modelled by  *)
(* an integer so that the order of the integers is the order of the        *)
(* strings: day d written as a calendar date "YYYY-MM-DD" is               *)
(* d * (DayLen + 1), and the instant x written by toISOString(), in UTC,   *)
(* as "YYYY-MM-DDTHH:mm:ss.sssZ" is its day's number plus 1 plus its time  *)
(* of day: a calendar date is a proper prefix of every timestamp of its    *)
(* day, so it sorts before them and after every timestamp of the day       *)
(* before.                                                                 *)
(***************************************************************************)

\* expense.date of an expense dated by calendar day d.
DateOnly(d) == d * (DayLen + 1)

\* date.toISOString()
ToISOString(x) == (x \div DayLen) * (DayLen + 1) + (x % DayLen) + 1

RECURSIVE SortedByDate(_)
\* index('date').getAll(range): ascending by index key, then by primary key.
SortedByDate(st) ==
    IF st = {} THEN <<>>
    ELSE LET least == CHOOSE r \in st : \A q \in st :
                         \/ r.date < q.date
                         \/ r.date = q.date /\ r.id <= q.id
         IN  <<least>> \o SortedByDate(st \ {least})

\* IDBKeyRange.bound(startDate.toISOString(), endDate.toISOString()) and
\* index.getAll(range); bound() throws DataError when the lower bound is
\* greater than the upper one, and the catch returns [].
ExpensesByDateRange(st, startDate, endDate) ==
    IF ToISOString(startDate) > ToISOString(endDate) THEN <<>>
    ELSE SortedByDate({e \in st : /\ ToISOString(startDate) <= e.date
                                  /\ e.date <= ToISOString(endDate)})

GetExpensesByDateRange(s, startDate, endDate) ==
    /\ Quiescent(s)
    /\ tasks' = [tasks EXCEPT ![s] =
           [NewTask("getExpensesByDateRange", "done") EXCEPT
               !.range = [startDate |-> startDate, endDate |-> endDate],
               !.pre = EmptyStores, !.res = "ok",
               !.es = ExpensesByDateRange(expenses, startDate, endDate)]]
    /\ UNCHANGED <<farms, expenses, settings, farmInfo, db, notifier, worker, clock, hist>>

(***************************************************************************)
(* SpecRange: getExpensesByDateRange over stores of dated expenses.        *)
(***************************************************************************)

\* The calendar days of the expenses and of the bounds.
MaxDay == 2

Dated(id, date) == [ExpenseX EXCEPT !.id = id, !.date = date]

\* Expenses dated by calendar day, as the expense form records them, and
\* expenses dated by a timestamp.
RangeExpenses ==
    {Dated(d + 1, DateOnly(d)) : d \in 0..MaxDay}
        \cup {Dated(MaxDay + 2, ToISOString(DayLen)),
              Dated(MaxDay + 3, ToISOString(DayLen + 1))}

\* The instants passed as startDate and endDate.
RangeInstants == 0..((MaxDay + 1) * DayLen - 1)

InitRange ==
    /\ farms = {FarmA}
    /\ expenses \in SUBSET RangeExpenses
    /\ settings = {}
    /\ farmInfo = {}
    /\ clock = 1
    /\ tasks = [s \in Slots |-> IdleTask]
    /\ hist = NoHist
    /\ db = OpenDB
    /\ notifier = IdleNotifier
    /\ worker = IdleWorker

NextRange ==
    \E startDate, endDate \in RangeInstants :
        GetExpensesByDateRange("a", startDate, endDate)

SpecRange == InitRange /\ [][NextRange]_vars

\* The expense is dated by calendar day.
IsDateOnly(date) == date % (DayLen + 1) = 0

\* The date lies between startDate and endDate, both included: a timestamp
\* not before startDate and not after endDate, a calendar day not before the
\* day of startDate and not after the day of endDate.
InDateRange(date, startDate, endDate) ==
    IF IsDateOnly(date)
    THEN /\ DateOnly(startDate \div DayLen) <= date
         /\ date <= DateOnly(endDate \div DayLen)
    ELSE /\ ToISOString(startDate) <= date
         /\ date <= ToISOString(endDate)

\* C26: getExpensesByDateRange(start, end) returns exactly the stored expenses
\* dated from start to end, both bounds included: an expense dated on the
\* start day or on the end day is among them.
C26_DateRangeInclusive ==
    \A s \in Slots :
        Resolved(s, "getExpensesByDateRange") =>
            Range(tasks[s].es) =
                {e \in expenses :
                    InDateRange(e.date, tasks[s].range.startDate,
                                tasks[s].range.endDate)}


(***************************************************************************)
(* NotificationManager                                                     *)
(***************************************************************************)

\* stage.offset of RICE_CULTIVATION_STAGES, in days from the farm's start.
StageOffsets == <<0, 3, 30, 31, 46, 113>>

\* "Include stages happening today, tomorrow, or in next 3 days"
UpcomingDays == 3

\* stageDate.setDate(stageDate.getDate() + stage.offset), then setHours(0, 0,
\* 0, 0) in daysUntil: the local midnight of the stage's calendar day.
StageMidnight(startDate, offset) == DayStart(DayOf(startDate) + offset)

\* daysUntil(targetDate) when new Date() reads t.
DaysUntil(targetMidnight, t) == (targetMidnight - Midnight(t)) \div DayLen

\* getUpcomingStages(farmInfo, stages): the offsets of the stages 0 to 3 days
\* ahead, in the order of the stages.
UpcomingStages(farm, t) ==
    IF farm.startDate = NoId THEN <<>>
    ELSE SelectSeq(StageOffsets,
                   LAMBDA o : /\ DaysUntil(StageMidnight(farm.startDate, o), t) >= 0
                              /\ DaysUntil(StageMidnight(farm.startDate, o), t)
                                    <= UpcomingDays)

\* ShouldCheckToday that never finds a check recorded.
ShouldCheckAlways(lastCheck, t) == TRUE

\* shouldCheckToday(): no check recorded, or new Date().toDateString() differs
\* from new Date(lastCheck).toDateString().
ShouldCheckToday(lastCheck, t) ==
    lastCheck = NoCheck \/ DayOf(t) # DayOf(lastCheck)

\* this.show(...) for each upcoming stage of the farm: the browser
\* notifications, each with the farm, the stage and the day it is shown.
Notifications(farm, upcoming, t) ==
    {[farmId |-> farm.id, offset |-> upcoming[i], day |-> DayOf(t)] :
        i \in DOMAIN upcoming}

\* checkAllFarms(stages): const farms = await IndexedDBStorage.getActiveFarms()
CheckAllFarmsCall(s) ==
    /\ Quiescent(s)
    /\ \E t \in Now :
         LET active == ActiveFarms(farms)
             t0 == [NewTask("checkAllFarms", "check") EXCEPT
                      !.pre = EmptyStores, !.fs = active,
                      !.check = [farms |-> active, day |-> DayOf(t),
                                 granted |-> notifier.granted,
                                 first |-> ShouldCheckToday(notifier.lastCheck, t)]]
         IN  /\ Start(s, IF active = <<>>
                         THEN [t0 EXCEPT !.pc = "done", !.res = "ok"] ELSE t0)
             /\ clock' = t
    /\ UNCHANGED <<farms, expenses, settings, farmInfo, db, notifier, worker>>

\* One turn of the loop: await this.checkFarmStages(farm, stages).  The
\* notifications of the farm are shown and the check is recorded in one
\* synchronous stretch; localStorage.setItem may throw, which markCheckedToday
\* catches.
CheckFarmStages(s) ==
    /\ tasks[s].op = "checkAllFarms" /\ tasks[s].pc = "check"
    /\ \E t \in Now : \E stored \in BOOLEAN :
         LET farm == Head(tasks[s].fs)
             rest == Tail(tasks[s].fs)
             upcoming == IF Truthy(farm.completed) THEN <<>>
                         ELSE UpcomingStages(farm, t)
             notify == /\ upcoming # <<>>
                       /\ ShouldCheckToday(notifier.lastCheck, t)
                       /\ notifier.granted
         IN  /\ notifier' =
                   IF notify
                   THEN [notifier EXCEPT
                            !.shown = @ \cup Notifications(farm, upcoming, t),
                            !.lastCheck = IF stored THEN t ELSE @]
                   ELSE notifier
             /\ clock' = t
             /\ tasks' = [tasks EXCEPT
                    ![s].fs = rest,
                    ![s].pc = IF rest = <<>> THEN "done" ELSE "check",
                    ![s].res = IF rest = <<>> THEN "ok" ELSE tasks[s].res]
    /\ UNCHANGED <<farms, expenses, settings, farmInfo, db, hist, worker>>

(***************************************************************************)
(* SpecNotify: two callers (pages, timers) run checkAllFarms over a store  *)
(* of active and completed farms while the days pass.                      *)
(***************************************************************************)

\* A completed farm besides the active ones.
FarmDone == [FarmB EXCEPT !.id = 3]

InitNotify ==
    /\ farms \in {{FarmA, FarmB2, FarmDone}, {FarmA, FarmB}, {FarmDone}}
    /\ expenses = {}
    /\ settings = {}
    /\ farmInfo = {}
    /\ clock = 1
    /\ tasks = [s \in Slots |-> IdleTask]
    /\ hist = NoHist
    /\ db = OpenDB
    /\ \E granted \in BOOLEAN : notifier = [IdleNotifier EXCEPT !.granted = granted]
    /\ worker = IdleWorker

NextNotify ==
    \E s \in Slots :
        \/ CheckAllFarmsCall(s)
        \/ CheckFarmStages(s)

SpecNotify == InitNotify /\ [][NextNotify]_vars


(***************************************************************************)
(* Properties of the notification checks.                                  *)
(***************************************************************************)

\* C27: a checkAllFarms that begins with notifications enabled and no check
\* recorded on that day, and runs to its end within the day with no other
\* check beside it, has shown a browser notification for every upcoming stage
\* of every active farm; no notification is ever shown for a completed farm.
C27_AllActiveFarmsNotified ==
    /\ \A s \in Slots :
          (/\ Resolved(s, "checkAllFarms") /\ tasks[s].solo
           /\ tasks[s].check.first /\ tasks[s].check.granted
           /\ DayOf(clock) = tasks[s].check.day)
          => \A i \in DOMAIN tasks[s].check.farms :
                LET farm == tasks[s].check.farms[i]
                IN  Notifications(farm, UpcomingStages(farm, clock), clock)
                        \subseteq notifier.shown
    /\ \A n \in notifier.shown :
          \A f \in farms : f.id = n.farmId => ~Truthy(f.completed)


\* C28: once a check is recorded, no step whose clock reading falls on the
\* calendar day of the recorded check shows a browser notification; and a
\* check of a farm with upcoming stages made on another day, with
\* notifications enabled, shows them.
C28_OncePerDay ==
    [][/\ (notifier.lastCheck # NoCheck /\ DayOf(clock') = DayOf(notifier.lastCheck))
          => notifier'.shown = notifier.shown
       /\ \A s \in Slots :
             (/\ tasks[s].op = "checkAllFarms" /\ tasks[s].pc = "check"
              /\ tasks'[s].fs # tasks[s].fs
              /\ notifier.granted
              /\ notifier.lastCheck # NoCheck
              /\ DayOf(clock') # DayOf(notifier.lastCheck)
              /\ UpcomingStages(Head(tasks[s].fs), clock') # <<>>)
             => Notifications(Head(tasks[s].fs),
                              UpcomingStages(Head(tasks[s].fs), clock'), clock')
                    \subseteq notifier'.shown]_vars

C28_Witness ==
    /\ notifier.lastCheck # NoCheck
    /\ DayOf(notifier.lastCheck) = 1
    /\ \E n \in notifier.shown : n.day = 0
    /\ \E n \in notifier.shown : n.day = 1
    /\ \E s \in Slots : Resolved(s, "checkAllFarms") /\ ~tasks[s].check.first


(***************************************************************************)
(* The service worker.  Requests are same-origin GET requests for HTML     *)
(* pages (accept includes text/html).                                      *)
(***************************************************************************)

\* STATIC_ASSETS
STATIC_ASSETS ==
    {"/", "/css/main.css", "/manifest.json", "https://cdn.jsdelivr.net/npm/chart.js"}

\* The page the fetch handler falls back to: caches.match('/welcome.html').
FallbackPage == "/welcome.html"

\* The HTML pages of the application.
Pages ==
    {"/", "/dashboard.html", "/farms.html", "/resource-tracker.html", FallbackPage}

\* request.url.includes(asset): request.url is the absolute URL, which
\* contains "/" whatever the page; no other asset is part of another URL of
\* the model.
Includes(url, asset) == asset = "/" \/ url = asset

\* STATIC_ASSETS.some(asset => request.url.includes(asset))
IsStaticAsset(url) == \E asset \in STATIC_ASSETS : Includes(url, asset)

\* caches.match(request): a response for the URL in any cache, else undefined.
Cached(url) == url \in worker.static \cup worker.dynamic

\* caches.match(url) as the answer: the cached response or undefined.
CacheMatch(url) == IF Cached(url) THEN url ELSE "none"

\* install: cache.addAll(STATIC_ASSETS) succeeds.
Install ==
    /\ ~worker.installed /\ worker.online
    /\ worker' = [worker EXCEPT !.installed = TRUE, !.static = @ \cup STATIC_ASSETS]
    /\ UNCHANGED <<farms, expenses, settings, farmInfo, clock, tasks, hist, db,
                   notifier>>

\* install: cache.addAll rejects (one asset cannot be fetched) and adds
\* nothing; the catch logs, so the promise given to waitUntil resolves and the
\* worker installs.
InstallAddAllFails ==
    /\ ~worker.installed
    /\ worker' = [worker EXCEPT !.installed = TRUE]
    /\ UNCHANGED <<farms, expenses, settings, farmInfo, clock, tasks, hist, db,
                   notifier>>

\* The network comes and goes.
SetOnline(online) ==
    /\ worker.online # online
    /\ worker' = [worker EXCEPT !.online = online]
    /\ UNCHANGED <<farms, expenses, settings, farmInfo, clock, tasks, hist, db,
                   notifier>>

\* The fetch handler for the page at url.  Cache-first for what it takes for
\* a static asset: the cached response; else the network response, a copy of
\* which is put in the static cache; else, the network failing, the fallback
\* page.  Network-first otherwise: the network response, a copy of which is
\* put in the dynamic cache; else the cached response; else the fallback page.
FetchPage(url) ==
    /\ worker.installed
    /\ LET answer(served) == [url |-> url, offline |-> ~worker.online,
                              served |-> served]
       IN  worker' =
              IF IsStaticAsset(url)
              THEN IF Cached(url)
                   THEN [worker EXCEPT !.last = answer(url)]
                   ELSE IF worker.online
                        THEN [worker EXCEPT !.last = answer("network"),
                                            !.static = @ \cup {url}]
                        ELSE [worker EXCEPT !.last = answer(CacheMatch(FallbackPage))]
              ELSE IF worker.online
                   THEN [worker EXCEPT !.last = answer("network"),
                                       !.dynamic = @ \cup {url}]
                   ELSE IF Cached(url)
                        THEN [worker EXCEPT !.last = answer(url)]
                        ELSE [worker EXCEPT !.last = answer(CacheMatch(FallbackPage))]
    /\ UNCHANGED <<farms, expenses, settings, farmInfo, clock, tasks, hist, db,
                   notifier>>

(***************************************************************************)
(* SpecWorker: the worker installs, the network comes and goes, pages are  *)
(* requested.                                                              *)
(***************************************************************************)

InitWorker ==
    /\ farms = {}
    /\ expenses = {}
    /\ settings = {}
    /\ farmInfo = {}
    /\ clock = 1
    /\ tasks = [s \in Slots |-> IdleTask]
    /\ hist = NoHist
    /\ db = OpenDB
    /\ notifier = IdleNotifier
    /\ worker = IdleWorker

NextWorker ==
    \/ Install
    \/ InstallAddAllFails
    \/ \E online \in BOOLEAN : SetOnline(online)
    \/ \E url \in Pages : FetchPage(url)

SpecWorker == InitWorker /\ [][NextWorker]_vars

\* C29: once the worker has installed, a request for a page made while the
\* network is out of reach is answered with the cached copy of the page when
\* there is one and with the fallback page otherwise, never with no response.
C29_OfflinePageAnswered ==
    worker.last.offline =>
        worker.last.served =
            IF Cached(worker.last.url) THEN worker.last.url ELSE FallbackPage


(***************************************************************************)
(* Properties of interleaved task-completion calls.                        *)
(***************************************************************************)

\* Callers s and o are in saveTaskCompletion calls on one farm that read the
\* same farm record (neither had written when the other read).
ReadTogether(s, o) ==
    /\ s # o
    /\ tasks[s].op = "saveTaskCompletion" /\ tasks[o].op = "saveTaskCompletion"
    /\ tasks[s].id = tasks[o].id
    /\ tasks[s].fs = tasks[o].fs

\* C30: of two saveTaskCompletion calls on one farm that both read it before
\* either wrote, the one that writes later leaves in the store exactly the
\* record it built from what it read: its own completion is there, and the
\* completion of the earlier writer, when for another pair that the farm did
\* not have yet, is not.
C30_LastWriteWins ==
    [][\A s, o \in Slots :
          (/\ ReadTogether(s, o)
           /\ tasks[o].pc = "done"
           /\ tasks[s].pc = "put" /\ tasks'[s].pc = "done")
          => LET stored == GetFarm(farms', tasks[s].id)
                 mine == tasks[s].args
                 other == tasks[o].args
             IN  /\ stored = WithCompletion(tasks[s].fs[1], mine, clock')
                 /\ HasPair(Completions(stored), mine.stageIndex, mine.taskIndex)
                 /\ (/\ ~SamePair(mine, other.stageIndex, other.taskIndex)
                     /\ ~HasPair(Completions(tasks[s].fs[1]),
                                 other.stageIndex, other.taskIndex))
                    => ~HasPair(Completions(stored),
                                other.stageIndex, other.taskIndex)]_vars

C30_Witness ==
    \E s, o \in Slots :
        /\ ReadTogether(s, o)
        /\ tasks[s].pc = "done" /\ tasks[o].pc = "done"
        /\ tasks[s].id = 1
        /\ ~SamePair(tasks[s].args, tasks[o].args.stageIndex, tasks[o].args.taskIndex)
        /\ HasPair(Completions(GetFarm(farms, 1)),
                   tasks[s].args.stageIndex, tasks[s].args.taskIndex)
        /\ ~HasPair(Completions(GetFarm(farms, 1)),
                    tasks[o].args.stageIndex, tasks[o].args.taskIndex)

(***************************************************************************)
(* setItem, getItem, removeItem: the generic key/value operations.  The    *)
(* value is stored as its JSON text under an out-of-line key.              *)
(***************************************************************************)

JsonValues ==
    {JsonNull} \cup [type : {"number", "string"}, n : 0..1]

\* JSON.stringify(value).
Stringify(v) ==
    CASE v.type = "null" -> "null"
      [] v.type = "number" -> IF v.n = 0 THEN "0" ELSE "1"
      [] v.type = "string" -> IF v.n = 0 THEN "\"\"" ELSE "\"a\""

\* JSON.parse(text) of a text JSON.stringify produced.
Parse(text) == CHOOSE v \in JsonValues : Stringify(v) = text

\* The keys the callers use.
ItemKeys == {"farmInfo", "expenseData", "expenseList", "theme"}

\* key.startsWith('expense'), for the keys of ItemKeys.
StartsWithExpense(key) == key \in {"expenseData", "expenseList"}

\* getStoreName(key).
GetStoreName(key) ==
    IF key = "farmInfo" THEN "farm_info"
    ELSE IF key = "expenseData" \/ StartsWithExpense(key) THEN "expenses"
    ELSE "settings"

\* store.put(value, key) throws DataError when the store uses in-line keys
\* (a key path) and a key argument is given; farms and expenses are created
\* with keyPath 'id'.
PutWithKeyFails(storeName) == storeName \in {"farms", "expenses"}

\* The store getStoreName names, as [key, value] pairs.  The expenses store
\* holds expense records under their ids, none of which is a key of ItemKeys.
ItemStore(storeName) ==
    CASE storeName = "farm_info" -> farmInfo
      [] storeName = "settings" -> settings
      [] storeName = "expenses" -> {}

\* setItem(key, value): one put of the JSON text; catch logs and rethrows.
SetItem(s, key, value) ==
    /\ Quiescent(s)
    /\ LET storeName == GetStoreName(key)
           call == [NoKV EXCEPT !.key = key, !.value = value]
       IN  IF PutWithKeyFails(storeName)
           THEN /\ Start(s, [NewTask("setItem", "rejected") EXCEPT
                               !.kv = call, !.res = "DataError",
                               !.pre = EmptyStores])
                /\ UNCHANGED <<settings, farmInfo>>
           ELSE /\ Start(s, [NewTask("setItem", "done") EXCEPT
                               !.kv = call, !.res = "ok", !.pre = EmptyStores])
                /\ settings' = IF storeName = "settings"
                               THEN KVPut(settings, key, Stringify(value))
                               ELSE settings
                /\ farmInfo' = IF storeName = "farm_info"
                               THEN KVPut(farmInfo, key, Stringify(value))
                               ELSE farmInfo
    /\ UNCHANGED <<farms, expenses, db, notifier, worker, clock>>

\* getItem(key): one get; undefined gives null, otherwise the parsed text.
GetItem(s, key) ==
    /\ Quiescent(s)
    /\ LET store == ItemStore(GetStoreName(key))
           result == IF KVHas(store, key) THEN Parse(KVGet(store, key))
                     ELSE JsonNull
       IN  Start(s, [NewTask("getItem", "done") EXCEPT
                       !.kv = [NoKV EXCEPT !.key = key, !.result = result],
                       !.res = "ok", !.pre = EmptyStores])
    /\ UNCHANGED <<farms, expenses, settings, farmInfo, db, notifier, worker, clock>>

\* removeItem(key): one delete; deleting a key that is not there succeeds.
RemoveItem(s, key) ==
    /\ Quiescent(s)
    /\ LET storeName == GetStoreName(key)
       IN  /\ settings' = IF storeName = "settings"
                          THEN {p \in settings : p.key # key} ELSE settings
           /\ farmInfo' = IF storeName = "farm_info"
                          THEN {p \in farmInfo : p.key # key} ELSE farmInfo
    /\ Start(s, [NewTask("removeItem", "done") EXCEPT
                    !.kv = [NoKV EXCEPT !.key = key], !.res = "ok",
                    !.pre = EmptyStores])
    /\ UNCHANGED <<farms, expenses, db, notifier, worker, clock>>

InitItems ==
    /\ farms = {} /\ expenses = {} /\ settings = {} /\ farmInfo = {}
    /\ clock = 0
    /\ tasks = [s \in Slots |-> IdleTask]
    /\ hist = NoHist
    /\ db = OpenDB
    /\ notifier = IdleNotifier /\ worker = IdleWorker

NextItems ==
    \/ \E key \in ItemKeys, value \in JsonValues : SetItem("a", key, value)
    \/ \E key \in ItemKeys : GetItem("a", key)
    \/ \E key \in ItemKeys : RemoveItem("a", key)

SpecItems == InitItems /\ [][NextItems]_vars

\* C31: setItem(k, v) resolves for every key and JSON value, a following
\* getItem(k) returns v, and getItem(k) after removeItem(k) returns null,
\* whichever of the three stores the key is routed to.
C31_ItemRoundTrip ==
    [][\A key \in ItemKeys :
          /\ (tasks'["a"].op = "setItem" /\ tasks'["a"].kv.key = key)
             => tasks'["a"].pc = "done"
          /\ (/\ tasks["a"].op = "setItem" /\ tasks["a"].kv.key = key
              /\ tasks'["a"].op = "getItem" /\ tasks'["a"].kv.key = key)
             => tasks'["a"].kv.result = tasks["a"].kv.value
          /\ (/\ tasks["a"].op = "removeItem" /\ tasks["a"].kv.key = key
              /\ tasks'["a"].op = "getItem" /\ tasks'["a"].kv.key = key)
             => tasks'["a"].kv.result = JsonNull]_vars

\* C32: when the getAllFarms of migrateLegacyData fails while a farm exists,
\* the migration creates no farm, leaves selectedFarmId alone and re-links
\* no expense.
C32_FailedReadIsNotNoFarms ==
    [][(/\ tasks["a"].op = "migrate" /\ tasks["a"].failed
        /\ tasks["a"].pc \in {"saveFarm", "select", "getExpenses", "expenses"}
        /\ \E f \in farms : f.id # tasks["a"].id)
       => /\ farms' = farms
          /\ settings' = settings
          /\ expenses' = expenses]_vars

(***************************************************************************)
(* SpecRemoval: two callers mark farms, record and undo task completions   *)
(* and delete farms, each call started whenever its caller is free.        *)
(***************************************************************************)

UserDeleteFarm(s) == \E id \in Keys(farms) : DeleteFarmCall(s, id)

InitRemoval ==
    /\ farms \in {{FarmA, FarmB}, {FarmAT, FarmB}}
    /\ expenses = {}
    /\ settings = {}
    /\ farmInfo = {}
    /\ clock = MaxClock - 1
    /\ tasks = [s \in Slots |-> IdleTask]
    /\ hist = NoHist
    /\ db = OpenDB
    /\ notifier = IdleNotifier
    /\ worker = IdleWorker

NextRemoval ==
    \E s \in Slots :
        \/ UserDeleteFarm(s)
        \/ UserMarkFarmCompleted(s)
        \/ MarkFarmCompletedPut(s)
        \/ UserMarkFarmActive(s)
        \/ MarkFarmActivePut(s)
        \/ UserSaveTaskCompletion(s)
        \/ SaveTaskCompletionPut(s)
        \/ UserDeleteTaskCompletion(s)
        \/ DeleteTaskCompletionPut(s)

SpecRemoval == InitRemoval /\ [][NextRemoval]_vars

\* A deleteFarm(id) that has resolved, the farm being gone.
Deleted(o) ==
    /\ tasks[o].op = "deleteFarm" /\ tasks[o].pc = "done"
    /\ ~HasKey(farms, tasks[o].id)

\* C33 as stated: once deleteFarm(id) has resolved, no step of a mark or
\* task-completion operation puts a farm with that id back.
C33_DeletedStaysDeleted ==
    [][\A o \in Slots : Deleted(o) => ~HasKey(farms', tasks[o].id)]_vars

\* C33, amended: a farm id that is not in the store comes into it only by
\* the write of a mark or task-completion operation on that id which was
\* in flight while another caller's call (the deleteFarm) was made; when
\* the callers serialize, a deleted farm stays deleted.
C33_OnlyOverlappedWriteRecreates ==
    [][\A id \in Keys(farms') \ Keys(farms) :
          \E s \in Slots :
             /\ tasks[s].op \in FarmOps /\ tasks[s].pc = "put"
             /\ tasks'[s].pc = "done"
             /\ tasks[s].id = id
             /\ ~tasks[s].solo]_vars

C33_Witness ==
    \E s, o \in Slots :
       /\ tasks[o].op = "deleteFarm" /\ tasks[o].pc = "done"
       /\ tasks[s].op \in FarmOps /\ tasks[s].pc = "done" /\ tasks[s].res = "ok"
       /\ tasks[s].id = tasks[o].id
       /\ ~tasks[s].solo
       /\ HasKey(farms, tasks[o].id)

(***************************************************************************)
(* SpecBackup: caller "a" runs exportAllData once while caller "b" saves   *)
(* farms and expenses, deletes farms and selects a farm, each of b's calls *)
(* one storage request.                                                    *)
(***************************************************************************)

\* setSelectedFarmId(farmId): one put under the key 'selectedFarmId'.
SetSelectedFarmIdCall(s, farmId) ==
    /\ Quiescent(s)
    /\ settings' = SetSelectedFarmId(settings, farmId)
    /\ Start(s, [NewTask("setSelectedFarmId", "done") EXCEPT
                    !.id = farmId, !.res = "ok"])
    /\ UNCHANGED <<farms, expenses, farmInfo, db, notifier, worker, clock>>

\* The caller selects a farm that is in the store at the call.
UserSelectFarm(s) == \E id \in Keys(farms) : SetSelectedFarmIdCall(s, id)

InitBackup ==
    /\ farms = {FarmA, FarmB}
    /\ expenses = {ExpenseX, ExpenseY}
    /\ settings \in InitSettings
    /\ farmInfo = {}
    /\ clock = MaxClock - 1
    /\ tasks = [s \in Slots |-> IdleTask]
    /\ hist = NoHist
    /\ db = OpenDB
    /\ notifier = IdleNotifier
    /\ worker = IdleWorker

\* The calls b makes while one export is in flight are at most this many.
MaxWrites == 2

\* b may make another call during the export of a.
DuringExport ==
    /\ tasks["a"].op = "export" /\ InFlight("a")
    /\ Cardinality(tasks["a"].seen) < MaxWrites

NextBackup ==
    \/ tasks["a"].op = "idle" /\ ExportCall("a")
    \/ ExportExpenses("a")
    \/ ExportSelected("a")
    \/ DuringExport /\ UserSaveNewFarm("b")
    \/ DuringExport /\ UserSaveExpense("b")
    \/ DuringExport /\ UserDeleteFarm("b")
    \/ DuringExport /\ UserSelectFarm("b")

SpecBackup == InitBackup /\ [][NextBackup]_vars

\* The document d holds the farms, the expenses and the selection of the
\* store contents st.
DocumentOf(d, st) ==
    /\ d.farms = SortedByKey(st.farms)
    /\ d.expenses = SortedByKey(st.expenses)
    /\ d.selectedFarmId = GetSelectedFarmId(st.settings)

\* The step in which the exportAllData of s returns its document.
ExportReturns(s) ==
    /\ tasks[s].op = "export" /\ tasks[s].pc = "selected"
    /\ tasks'[s].pc = "done"

\* C34 as stated: the document exportAllData returns is the store contents
\* of one instant of the call (the stores before one of the writes made
\* since it began, or the stores when it returns), whatever writes interleave
\* with its three reads.
C34_ExportIsSnapshot ==
    [][\A s \in Slots :
          ExportReturns(s) =>
             \E st \in tasks[s].seen \cup {Store} : DocumentOf(tasks'[s].doc, st)]_vars

\* C34, amended: the document holds the farms as the first read found them,
\* the expenses as the second read found them and the selection as the third
\* read finds it; when no other call was made during the export it is the
\* store contents, which are then the same throughout the call.
C34_ExportReadsInTurn ==
    [][\A s \in Slots :
          ExportReturns(s) =>
             /\ tasks'[s].doc.farms = tasks[s].fs
             /\ tasks'[s].doc.expenses = tasks[s].es
             /\ tasks'[s].doc.selectedFarmId = GetSelectedFarmId(settings)
             /\ tasks[s].solo =>
                   /\ tasks[s].seen = {}
                   /\ DocumentOf(tasks'[s].doc, Store)
                   /\ DocumentOf(tasks'[s].doc, tasks[s].pre)]_vars

C34_Witness ==
    \E s \in Slots :
       /\ Resolved(s, "export")
       /\ tasks[s].seen # {}
       /\ \A st \in tasks[s].seen \cup {Store} : ~DocumentOf(tasks[s].doc, st)

(***************************************************************************)
(* SpecRestore: one caller exports, the page keeps the document as the     *)
(* backup file, the caller then saves and deletes farms, saves expenses    *)
(* and selects farms, one call after the other, and at some point restores *)
(* the backup file with importAllData.                                     *)
(***************************************************************************)

\* "Backup My Data": the document exportAllData returned is saved as a file;
\* hist keeps it.
SaveBackupFile(s) ==
    /\ Resolved(s, "export")
    /\ hist.op # "backup"
    /\ hist' = [hist EXCEPT !.op = "backup", !.doc = tasks[s].doc]
    /\ UNCHANGED <<farms, expenses, settings, farmInfo, db, notifier, worker,
                   clock, tasks>>

\* "Restore from Backup": importAllData of the backup file.
RestoreBackup(s) ==
    /\ hist.op = "backup"
    /\ ImportCall(s, hist.doc, FALSE)

HasBackup == hist.op = "backup"

InitRestore == InitBackup

NextRestore ==
    \/ tasks["a"].op = "idle" /\ ExportCall("a")
    \/ ExportExpenses("a")
    \/ ExportSelected("a")
    \/ SaveBackupFile("a")
    \/ HasBackup /\ UserSaveNewFarm("a")
    \/ HasBackup /\ UserSaveExpense("a")
    \/ HasBackup /\ UserDeleteFarm("a")
    \/ HasBackup /\ UserSelectFarm("a")
    \/ RestoreBackup("a")
    \/ ImportFarm("a")
    \/ ImportExpense("a")
    \/ ImportSelected("a")

SpecRestore == InitRestore /\ [][NextRestore]_vars

\* C35 as stated: restoring a backup after any sequence of saves, deletes
\* and selections returns farms, expenses and selectedFarmId to what the
\* backup recorded, also when it recorded no selected farm.
C35_RestoreReturnsToBackup ==
    \A s \in Slots :
       Resolved(s, "import") => DocumentOf(tasks[s].orig, Store)

\* C35, amended: the restore returns farms and expenses to what the backup
\* recorded, and selectedFarmId too when the backup recorded one; when it
\* recorded none, selectedFarmId stays what it was when the restore began.
C35_RestoreKeepsSelectionIfNone ==
    \A s \in Slots :
       Resolved(s, "import") =>
          LET d == tasks[s].orig
          IN  /\ SortedByKey(farms) = d.farms
              /\ SortedByKey(expenses) = d.expenses
              /\ GetSelectedFarmId(settings) =
                    IF d.selectedFarmId # NoId THEN d.selectedFarmId
                    ELSE GetSelectedFarmId(tasks[s].pre.settings)

C35_Witness ==
    /\ Resolved("a", "import")
    /\ tasks["a"].orig.selectedFarmId = NoId
    /\ GetSelectedFarmId(settings) = 2
    /\ farms = {FarmA, FarmB}
    /\ expenses = {ExpenseX, ExpenseY}

\* C36: selectedFarmId is absent or the id of a farm in the store, in every
\* state reached when setSelectedFarmId is only called with the id of a farm
\* that exists at the call.
C36_SelectedFarmExists ==
    GetSelectedFarmId(settings) # NoId
       => HasKey(farms, GetSelectedFarmId(settings))

(***************************************************************************)
(* getCurrentStageIndex (rice-stages.js): the stage a farm is in.          *)
(* MS_PER_DAY is DayLen instants; the stage table is StageOffsets, indexed *)
(* from 1 here and from 0 in the result, as in the code.                   *)
(***************************************************************************)

\* Math.max(0, Math.floor((today - start) / MS_PER_DAY))
DaysElapsed(startDate, today) ==
    LET d == (today - startDate) \div DayLen
    IN  IF d > 0 THEN d ELSE 0

RECURSIVE StageScanStrict(_, _, _)
\* StageScan comparing with > in place of >=.
StageScanStrict(index, daysElapsed, currentIdx) ==
    IF index >= Len(StageOffsets) THEN currentIdx
    ELSE StageScanStrict(index + 1, daysElapsed,
                         IF daysElapsed > StageOffsets[index + 1]
                         THEN index ELSE currentIdx)

RECURSIVE StageScan(_, _, _)
\* RICE_CULTIVATION_STAGES.forEach from index on:
\* if (daysElapsed >= stage.offset) currentIdx = index
StageScan(index, daysElapsed, currentIdx) ==
    IF index >= Len(StageOffsets) THEN currentIdx
    ELSE StageScan(index + 1, daysElapsed,
                   IF daysElapsed >= StageOffsets[index + 1]
                   THEN index ELSE currentIdx)

GetCurrentStageIndex(startDate, today) ==
    StageScan(0, DaysElapsed(startDate, today), 0)

\* The last instant looked at: two days past the last stage's offset.
LastInstant == (StageOffsets[Len(StageOffsets)] + 2) * DayLen

\* The start dates of the farms asked about.
StageStarts == {0, 4 * DayLen + 1}

\* getCurrentStageIndex(startDate) called at the instant t: synchronous.
GetCurrentStageIndexCall(s, startDate) ==
    /\ Quiescent(s)
    /\ \E t \in clock..LastInstant :
         /\ clock' = t
         /\ tasks' = [tasks EXCEPT ![s] =
               [IdleTask EXCEPT !.op = "getCurrentStageIndex", !.pc = "done",
                                !.range = [NoRange EXCEPT !.startDate = startDate],
                                !.i = GetCurrentStageIndex(startDate, t),
                                !.res = "ok"]]
    /\ UNCHANGED <<farms, expenses, settings, farmInfo, db, notifier, worker, hist>>

InitStages ==
    /\ farms = {} /\ expenses = {} /\ settings = {} /\ farmInfo = {}
    /\ clock \in 0..LastInstant
    /\ tasks = [s \in Slots |-> IdleTask]
    /\ hist = NoHist
    /\ db = OpenDB
    /\ notifier = IdleNotifier /\ worker = IdleWorker

NextStages == \E startDate \in StageStarts : GetCurrentStageIndexCall("a", startDate)

SpecStages == InitStages /\ [][NextStages]_vars

\* The whole days from startDate to today, none when today is earlier.
WholeDays(startDate, today) ==
    IF today < startDate THEN 0
    ELSE LET span == today - startDate
             near == span \div DayLen
         IN  CHOOSE d \in (near - 1)..(near + 1) :
                d >= 0 /\ d * DayLen <= span /\ span < (d + 1) * DayLen

\* The indexes of the stages that have begun after that many days.
Begun(days) == {i \in 0..(Len(StageOffsets) - 1) : StageOffsets[i + 1] <= days}

\* C37: getCurrentStageIndex returns the greatest index of a stage whose
\* offset is at most the whole days elapsed since startDate (negative counted
\* as 0), always an index of the stage table, and a later call for the same
\* startDate never returns a smaller index.
C37_CurrentStageIndex ==
    [][tasks'["a"].op = "getCurrentStageIndex" =>
          LET days == WholeDays(tasks'["a"].range.startDate, clock')
              idx == tasks'["a"].i
          IN  /\ idx \in Begun(days)
              /\ \A i \in Begun(days) : i <= idx
              /\ idx \in 0..(Len(StageOffsets) - 1)
              /\ (/\ tasks["a"].op = "getCurrentStageIndex"
                  /\ tasks["a"].range.startDate = tasks'["a"].range.startDate)
                 => tasks["a"].i <= idx]_vars

C37_Witness ==
    /\ tasks["a"].op = "getCurrentStageIndex"
    /\ tasks["a"].range.startDate = 0
    /\ clock = StageOffsets[4] * DayLen
    /\ tasks["a"].i = 3

====
